---- MODULE Spec2Model ----
(***************************************************************************)
(* Model of the bilisub V2 pipeline: the result cache (bilisub/cache.py),  *)
(* subject-id resolution (bilisub/utils.py), the strategy classifier       *)
(* (bilisub/strategy.py), the coordinator run_pipeline (bilisub/api.py)    *)
(* and the one-shot wrapper (bilisub/one_shot.py); the subtitle            *)
(* post-processing of the downloader (enhanced_bilisub.py).                *)
(*                                                                         *)
(* Encoding of Python values.                                              *)
(*  - a str used for ids, URLs and paths is a sequence of one-character    *)
(*    strings; None and "" are both the empty sequence (both are falsy,    *)
(*    and the code only tests truthiness on them);                         *)
(*  - a dict is a function from its keys (strings) to its values;          *)
(*  - a value that is not a dict (None, a list, a str) is the one-field    *)
(*    record [nondict |-> <type name>], so isinstance(v, dict) is          *)
(*    "nondict" \notin DOMAIN v;                                           *)
(*  - a list stored under a dict key whose value may also be a non-list    *)
(*    is wrapped as [list |-> <sequence>];                                 *)
(*  - a file is [kind |-> "missing"], [kind |-> "garbage"] (bytes that     *)
(*    json.loads rejects) or [kind |-> "json", val |-> v].                 *)
(***************************************************************************)
EXTENDS Integers, Sequences, FiniteSets, TLC

VARIABLES cache, last, saved, procs

vars == <<cache, last, saved, procs>>

(***************************************************************************)
(* Bounds.                                                                 *)
(***************************************************************************)
\* number of leading hex digits of the digest kept as the cache key
\* (12 in cache.py; scaled down together with the digest length)
HashLen == 1

\* hex digits of the modelled digest beyond the kept prefix
DigestTail == 2

\* longest subtitle text, in tokens
MaxTokens == 3

\* bits of a float's mantissa (53 in Python; scaled down)
MantissaBits == 13

\* most segments in one subtitle track
MaxSegments == 3

\* largest max_frames a caller of sample_frames asks for
MaxAsked == 3

(***************************************************************************)
(* Strings as character sequences.                                         *)
(***************************************************************************)
None == <<>>

AlnumChars == {"B", "V", "1", "2", "a", "n", "o", "s", "t", "u", "v", "x"}

\* BV_REGEX = re.compile(r"BV[0-9A-Za-z]+")
BvStartsAt(text, i) ==
    /\ i + 2 <= Len(text)
    /\ text[i] = "B"
    /\ text[i + 1] = "V"
    /\ text[i + 2] \in AlnumChars

Min(S) == CHOOSE x \in S : \A y \in S : x <= y

Max(S) == CHOOSE x \in S : \A y \in S : x >= y

\* extract_bv_id: leftmost match, greedy over the alphanumeric run
extract_bv_id(text) ==
    IF text = <<>> THEN None
    ELSE LET starts == {i \in 1..Len(text) : BvStartsAt(text, i)}
         IN IF starts = {} THEN None
            ELSE LET i == Min(starts)
                     stop == Max({j \in (i + 2)..Len(text) :
                                    \A k \in (i + 2)..j : text[k] \in AlnumChars})
                 IN SubSeq(text, i, stop)

\* Path(p).name: the last component of the path
PathName(p) ==
    LET slashes == {i \in 1..Len(p) : p[i] = "/"}
    IN IF slashes = {} THEN p ELSE SubSeq(p, Max(slashes) + 1, Len(p))

\* derive_bv_from_paths: first of subs_path, video_path whose file name has an id
derive_bv_from_paths(subs_path, video_path) ==
    IF subs_path # <<>> /\ extract_bv_id(PathName(subs_path)) # <<>>
    THEN extract_bv_id(PathName(subs_path))
    ELSE IF video_path # <<>> /\ extract_bv_id(PathName(video_path)) # <<>>
         THEN extract_bv_id(PathName(video_path))
         ELSE None

(***************************************************************************)
(* cache.py: the profile hash.                                             *)
(***************************************************************************)
\* from . import __version__ as PIPELINE_VERSION
PIPELINE_VERSION == "2.0.0"

\* the UTF-8 bytes of a string, abstracted to one number per string
StrCode(s) ==
    CASE s = "2.0.0" -> 3
      [] s = "mock" -> 5
      [] s = "openrouter" -> 6
      [] s = "vlm-a" -> 7
      [] s = "vlm-b" -> 20
      [] s = "vlm-c" -> 12
      [] s = "llm-a" -> 9
      [] s = "llm-b" -> 10
      [] s = "auto" -> 11
      [] s = "zh" -> 13
      [] s = "en" -> 14
      [] s = "uniform" -> 16
      [] s = "tutorial" -> 17
      [] s = "slides" -> 18
      [] s = "game" -> 19
      [] s = "talk" -> 29
      [] s = "vlog" -> 21
      [] s = "movie" -> 22
      [] s = "unknown" -> 24
      [] s = "slide_extractor" -> 25
      [] s = "ui_extractor" -> 26
      [] s = "scene_descriptor" -> 27
      [] s = "generic" -> 28

\* json.dumps(profile, ensure_ascii=False, sort_keys=True).encode("utf-8"):
\* the values in sorted key order, the nested strategy object in place
canonical_json(profile) ==
    << StrCode(profile.language),
       StrCode(profile.llm_model),
       StrCode(profile.pipeline_version),
       StrCode(profile.provider),
       profile.strategy.frames_per_min,
       StrCode(profile.strategy.kind),
       profile.strategy.max_frames,
       StrCode(profile.strategy.sampling),
       StrCode(profile.strategy.vlm_prompt_style),
       StrCode(profile.vlm_model) >>

RECURSIVE Pow(_, _)
Pow(b, e) == IF e = 0 THEN 1 ELSE b * Pow(b, e - 1)

DigestLen == HashLen + DigestTail

DigestSpace == Pow(16, DigestLen)

\* hashlib.sha1(data): a fixed deterministic function of the bytes into the
\* finite digest space (a multiplicative fold stands in for the compression)
RECURSIVE sha1(_, _)
sha1(data, h) ==
    IF data = <<>> THEN h
    ELSE sha1(Tail(data), ((h + Head(data)) * 2533) % DigestSpace)

\* .hexdigest(): the digest as DigestLen hex digits, most significant first
hexdigest(n) ==
    [i \in 1..DigestLen |-> (n \div Pow(16, DigestLen - i)) % 16]

\* _profile_hash: hexdigest()[:12], here the first HashLen digits
profile_hash(profile) ==
    SubSeq(hexdigest(sha1(canonical_json(profile), 7)), 1, HashLen)

(***************************************************************************)
(* The profile as the Python dict it is: a sequence of items in insertion  *)
(* order, [key, str], [key, int] or [key, dict] with nested items.         *)
(***************************************************************************)
\* variant: no key is ordered before another, the items stay as inserted
KeyRank_unordered(k) == 1

\* the place of each key in the order of Python string comparison
KeyRank(k) ==
    CASE k = "frames_per_min" -> 1
      [] k = "kind" -> 2
      [] k = "language" -> 3
      [] k = "llm_model" -> 4
      [] k = "max_frames" -> 5
      [] k = "pipeline_version" -> 6
      [] k = "provider" -> 7
      [] k = "sampling" -> 8
      [] k = "strategy" -> 9
      [] k = "vlm_model" -> 10
      [] k = "vlm_prompt_style" -> 11

Without(items, i) == SubSeq(items, 1, i - 1) \o SubSeq(items, i + 1, Len(items))

\* sort_keys=True: the items of one object ordered by key
RECURSIVE sort_keys(_)
sort_keys(items) ==
    IF items = <<>> THEN <<>>
    ELSE LET i == CHOOSE i \in 1..Len(items) :
                     \A j \in 1..Len(items) :
                         KeyRank(items[i].key) <= KeyRank(items[j].key)
         IN << items[i] >> \o sort_keys(Without(items, i))

\* json.dumps(profile, ensure_ascii=False, sort_keys=True).encode("utf-8")
\* of a dict given by its items: sorted at every nesting level
RECURSIVE json_dumps(_)
json_dumps(items) ==
    LET sorted == sort_keys(items)
        value(it) == IF "str" \in DOMAIN it THEN << StrCode(it.str) >>
                     ELSE IF "int" \in DOMAIN it THEN << it.int >>
                     ELSE json_dumps(it.dict)
        F[n \in 0..Len(sorted)] ==
            IF n = 0 THEN <<>> ELSE F[n - 1] \o value(sorted[n])
    IN F[Len(sorted)]

\* _profile_hash of a dict given by its items
items_hash(items) ==
    SubSeq(hexdigest(sha1(json_dumps(items), 7)), 1, HashLen)

\* the content of a dict: its value under each key, whatever the order
RECURSIVE dict_of(_)
dict_of(items) ==
    [k \in {items[i].key : i \in 1..Len(items)} |->
        LET it == items[CHOOSE i \in 1..Len(items) : items[i].key = k]
        IN IF "str" \in DOMAIN it THEN it.str
           ELSE IF "int" \in DOMAIN it THEN it.int
           ELSE dict_of(it.dict)]

(***************************************************************************)
(* cache.py: files and the three cache operations.                         *)
(***************************************************************************)
Missing == [kind |-> "missing"]

Garbage == [kind |-> "garbage"]

Json(v) == [kind |-> "json", val |-> v]

NoneVal == [nondict |-> "None"]

IsDict(v) == "nondict" \notin DOMAIN v

EmptyDir == [latest |-> Missing, meta |-> Missing, results |-> <<>>]

\* variant: the directory does not depend on the subject id
cache_dir_for_bv_shared(bv_id) == <<"B", "V", "1">>

\* cache_dir_for_bv: root / bv_id, one directory per subject id
cache_dir_for_bv(bv_id) == bv_id

\* p.exists() followed by json.loads(p.read_text()) under try/except:
\* the parsed value, or None for a missing or unparseable file
read_json_or_none(file) ==
    IF file.kind = "json" THEN file.val ELSE NoneVal

\* load_latest
load_latest(c, bv_id) ==
    read_json_or_none(c[cache_dir_for_bv(bv_id)].latest)

\* load_by_profile
load_by_profile(c, bv_id, profile) ==
    LET d == c[cache_dir_for_bv(bv_id)]
        h == profile_hash(profile)
    IN IF h \in DOMAIN d.results THEN read_json_or_none(d.results[h])
       ELSE NoneVal

\* save_result, lines 38-47: the meta index update.  The result is the new
\* content of meta.json, or "raise" when the update raises before the write.
meta_update(file, h) ==
    LET meta == IF file.kind = "json" THEN file.val
                ELSE [profiles |-> [list |-> <<>>]]
    IN IF ~IsDict(meta) THEN [raise |-> TRUE, file |-> file]
       ELSE IF "profiles" \notin DOMAIN meta
            THEN [raise |-> FALSE,
                  file |-> Json([k \in DOMAIN meta \cup {"profiles"} |->
                                   IF k = "profiles" THEN [list |-> <<h>>]
                                   ELSE meta[k]])]
            ELSE IF ~("list" \in DOMAIN meta.profiles)
                 THEN [raise |-> TRUE, file |-> file]
                 ELSE IF \E i \in 1..Len(meta.profiles.list) :
                              meta.profiles.list[i] = h
                      THEN [raise |-> FALSE, file |-> Json(meta)]
                      ELSE [raise |-> FALSE,
                            file |-> Json([meta EXCEPT !.profiles =
                                     [list |-> Append(meta.profiles.list, h)]])]

\* variant: result_latest.json is not rewritten
save_result_stale_latest(c, bv_id, profile, payload) ==
    LET dir == cache_dir_for_bv(bv_id)
        d == c[dir]
        h == profile_hash(profile)
        entry == Json([profile |-> profile, data |-> payload])
        results1 == [k \in DOMAIN d.results \cup {h} |->
                        IF k = h THEN entry ELSE d.results[k]]
        m == meta_update(d.meta, h)
    IN [raise |-> m.raise,
        cache |-> [c EXCEPT ![dir] =
                     [latest |-> d.latest, meta |-> m.file, results |-> results1]]]

\* save_result: writes result_<h>.json, then result_latest.json, then reads,
\* updates and writes meta.json; the first two writes stay when the meta
\* update raises
save_result(c, bv_id, profile, payload) ==
    LET dir == cache_dir_for_bv(bv_id)
        d == c[dir]
        h == profile_hash(profile)
        entry == Json([profile |-> profile, data |-> payload])
        results1 == [k \in DOMAIN d.results \cup {h} |->
                        IF k = h THEN entry ELSE d.results[k]]
        m == meta_update(d.meta, h)
    IN [raise |-> m.raise,
        cache |-> [c EXCEPT ![dir] =
                     [latest |-> entry, meta |-> m.file, results |-> results1]]]

(***************************************************************************)
(* strategy.py.  A subtitle text is a sequence of tokens.  CJK keywords    *)
(* are written in pinyin: jiaocheng, buzhou, anzhuang, dianji, peizhi,     *)
(* mulu, huandengpian, youxi, jisha, paiwei, yanjiang, fangtan, boke,      *)
(* lvxing, richang, jilu, dianying, juqing, pianduan.                      *)
(***************************************************************************)
\* str.lower() of one token
Lower(tok) ==
    CASE tok = "Slide" -> "slide"
      [] tok = "PPT" -> "ppt"
      [] tok = "Movie" -> "movie"
      [] OTHER -> tok

\* the keywords that occur as substrings of a (lower-cased) token
KeywordsIn(tok) ==
    CASE tok = "slides" -> {"slide"}
      [] tok = "deliver" -> {"live"}
      [] tok = "gameplay" -> {"gameplay"}
      [] OTHER -> {tok}

\* number of characters of a token in the range U+4E00..U+9FFF
CjkChars(tok) ==
    CASE tok \in {"jiaocheng", "buzhou", "anzhuang", "dianji", "peizhi", "mulu",
                  "youxi", "jisha", "paiwei", "yanjiang", "fangtan", "boke",
                  "lvxing", "richang", "jilu", "dianying", "juqing", "pianduan"} -> 2
      [] tok = "huandengpian" -> 3
      [] tok = "hanzi24" -> 24
      [] tok = "hanzi25" -> 25
      [] tok = "hanzi26" -> 26
      [] OTHER -> 0

RECURSIVE CjkCount(_)
CjkCount(text) ==
    IF text = <<>> THEN 0 ELSE CjkChars(Head(text)) + CjkCount(Tail(text))

\* variant: 50 CJK characters are enough
cjk_text_inclusive(cjk) == cjk >= 50

\* line 25: cjk > 50
cjk_text(cjk) == cjk > 50

\* variant: every preference other than auto is returned as it is
detect_language_trusting(text, preferred) ==
    IF preferred # "auto" THEN preferred
    ELSE IF cjk_text(CjkCount(text)) THEN "zh" ELSE "en"

\* _detect_language
detect_language(text, preferred) ==
    IF preferred \in {"zh", "en"} THEN preferred
    ELSE IF cjk_text(CjkCount(text)) THEN "zh" ELSE "en"

\* variant: the text is searched as written, not lower-cased
any_kw_cased(text, words) ==
    \E i \in 1..Len(text) : KeywordsIn(text[i]) \cap words # {}

\* any_kw: some keyword of the group occurs in the lower-cased text
any_kw(text, words) ==
    \E i \in 1..Len(text) : KeywordsIn(Lower(text[i])) \cap words # {}

Strategy(kind, sampling, fpm, maxf, style, lang) ==
    [kind |-> kind, sampling |-> sampling, frames_per_min |-> fpm,
     max_frames |-> maxf, vlm_prompt_style |-> style, language |-> lang]

\* decide_strategy
decide_strategy(subtitles_text, preferred_lang) ==
    LET lang == detect_language(subtitles_text, preferred_lang)
    IN IF any_kw(subtitles_text, {"jiaocheng", "buzhou", "anzhuang", "dianji",
                                  "peizhi", "chapter", "lesson", "slide", "ppt", "mulu"})
       THEN Strategy("tutorial", "uniform", 12, 80, "slide_extractor", lang)
       ELSE IF any_kw(subtitles_text, {"ppt", "huandengpian", "slide", "presentation"})
       THEN Strategy("slides", "uniform", 10, 70, "slide_extractor", lang)
       ELSE IF any_kw(subtitles_text, {"youxi", "jisha", "paiwei", "live", "match", "gameplay"})
       THEN Strategy("game", "uniform", 20, 120, "ui_extractor", lang)
       ELSE IF any_kw(subtitles_text, {"yanjiang", "fangtan", "boke", "talk", "podcast", "interview"})
       THEN Strategy("talk", "uniform", 6, 60, "scene_descriptor", lang)
       ELSE IF any_kw(subtitles_text, {"vlog", "lvxing", "richang", "jilu"})
       THEN Strategy("vlog", "uniform", 8, 80, "scene_descriptor", lang)
       ELSE IF any_kw(subtitles_text, {"dianying", "juqing", "pianduan", "movie", "scene"})
       THEN Strategy("movie", "uniform", 15, 100, "scene_descriptor", lang)
       ELSE Strategy("unknown", "uniform", 10, 80, "generic", lang)

(***************************************************************************)
(* frames.py.  A video file is its frame count and frame rate; a sampled   *)
(* image is the position of the frame it was read from.                    *)
(***************************************************************************)
RECURSIVE read_loop(_, _, _, _, _)
read_loop(total_frames, interval, max_frames, idx, frames) ==
    IF ~(idx < total_frames) THEN frames
    ELSE IF Len(frames) + 1 >= max_frames THEN Append(frames, idx)
         ELSE read_loop(total_frames, interval, max_frames, idx + interval,
                        Append(frames, idx))

\* sample_frames, lines 18-47
sample_frames(video, frames_per_min, max_frames) ==
    LET fps == IF video.fps = 0 THEN 25 ELSE video.fps
        total_frames == video.total_frames
        frames_needed0 == (total_frames * frames_per_min) \div (fps * 60)
        frames_needed == Max({1, Min({frames_needed0, max_frames})})
        interval == IF total_frames <= 0 THEN Max({1, fps})
                    ELSE Max({1, total_frames \div frames_needed})
    IN read_loop(total_frames, interval, max_frames, 0, <<>>)

(***************************************************************************)
(* The files and URLs the runs are given.                                  *)
(***************************************************************************)
BV1 == <<"B", "V", "1">>

BV2 == <<"B", "V", "2">>

Anon == <<"a", "n", "o", "n">>

Subjects == {BV1, BV2, Anon}

SubsS == <<"s">>

SubsT == <<"t">>

SubsNamed == <<"s", "/", "B", "V", "2">>

VideoV == <<"v">>

\* a video file without a readable frame
VideoE == <<"e">>

UrlBV1 == <<"u", "/", "B", "V", "1">>

UrlX == <<"u", "/", "x">>

UrlO == <<"u", "/", "o">>

\* Path(subs_path).read_text(): the content of each subtitle file
read_text(subs_path) ==
    CASE subs_path = SubsS -> <<"anzhuang", "dianying">>
      [] subs_path = SubsT -> <<"hello">>
      [] subs_path = SubsNamed -> <<"Movie">>

\* cv2.VideoCapture(video_path): frame count and frame rate of the file
VideoCapture(video_path) ==
    IF video_path = VideoE THEN [total_frames |-> 0, fps |-> 2]
    ELSE [total_frames |-> 120, fps |-> 2]

(***************************************************************************)
(* The collaborators.  A chat call is deterministic: its answer is a       *)
(* function of the provider and of the whole request, modelled as the      *)
(* request itself.  The step of a run that fails, if it is reached, is     *)
(* the input f of the run.                                                 *)
(***************************************************************************)
Faults == {"none", "subs", "sample", "provider", "vlm", "summarize"}

Call(step, arg) == [step |-> step, arg |-> arg]

\* vlm.py: _chat_with_retry answered after parsing, for one image
\* (image = -1: the prompt-only request of a dry run)
vision_note(provider, model, strategy, image) ==
    [by |-> provider, model |-> model, style |-> strategy.vlm_prompt_style,
     language |-> strategy.language, image |-> image]

\* parse_frames_with_vlm: one request in a dry run, else one per frame
parse_frames_with_vlm(provider, model, frames, strategy, dry_run) ==
    IF dry_run THEN << vision_note(provider, model, strategy, -1) >>
    ELSE [i \in 1..Len(frames) |-> vision_note(provider, model, strategy, frames[i])]

vision_calls_prompt_only(frames, dry_run) == << Call("vision", -1) >>

vision_calls(frames, dry_run) ==
    IF dry_run THEN << Call("vision", -1) >>
    ELSE [i \in 1..Len(frames) |-> Call("vision", frames[i])]

\* summarize_video: one request with the subtitle text and the visual notes
summarize_video(provider, model, subtitles_text, visual_notes, language) ==
    [by |-> provider, model |-> model, subs |-> subtitles_text,
     notes |-> visual_notes, language |-> language]

(***************************************************************************)
(* api.py: run_pipeline.                                                   *)
(***************************************************************************)
Res(how, raised, out, calls, c, profile) ==
    [how |-> how, raised |-> raised, out |-> out, calls |-> calls,
     cache |-> c, profile |-> profile]

\* line 43: bv_id or (extract_bv_id(source_url) if source_url else None)
\*          or derive_bv_from_paths(subs_path, video_path)
resolve_bv(a) ==
    IF a.bv_id # <<>> THEN a.bv_id
    ELSE IF a.source_url # <<>> /\ extract_bv_id(a.source_url) # <<>>
         THEN extract_bv_id(a.source_url)
         ELSE derive_bv_from_paths(a.subs_path, a.video_path)

\* lines 58-72
build_profile(a, strategy) ==
    [pipeline_version |-> PIPELINE_VERSION,
     provider |-> a.provider,
     vlm_model |-> a.vlm_model,
     llm_model |-> a.llm_model,
     language |-> a.language,
     strategy |-> [kind |-> strategy.kind,
                   sampling |-> strategy.sampling,
                   vlm_prompt_style |-> strategy.vlm_prompt_style,
                   frames_per_min |-> strategy.frames_per_min,
                   max_frames |-> Min({a.max_frames, strategy.max_frames})]]

\* lines 48 and 76: cached and isinstance(cached, dict) and "data" in cached
usable(cached) == IsDict(cached) /\ "data" \in DOMAIN cached

\* lines 49-52 and 77-80: out.setdefault("meta", {}); out["meta"].update(...)
\* raises AttributeError when out or out["meta"] is not a dict
tag_cache_hit(out, effective_bv) ==
    IF ~IsDict(out) THEN [raise |-> TRUE, out |-> NoneVal]
    ELSE LET m0 == IF "meta" \in DOMAIN out THEN out.meta ELSE <<>>
             upd == [cache_hit |-> TRUE, cache_bv |-> effective_bv,
                     pipeline_version |-> PIPELINE_VERSION]
         IN IF ~IsDict(m0) THEN [raise |-> TRUE, out |-> NoneVal]
            ELSE [raise |-> FALSE,
                  out |-> [k \in DOMAIN out \cup {"meta"} |->
                             IF k = "meta"
                             THEN [j \in DOMAIN m0 \cup DOMAIN upd |->
                                     IF j \in DOMAIN upd THEN upd[j] ELSE m0[j]]
                             ELSE out[k]]]

\* variant: the refresh flag is read the wrong way round
cache_enabled_inverted(a, effective_bv) == effective_bv # <<>> /\ a.refresh_cache

\* lines 46 and 74: effective_bv and not refresh_cache
cache_enabled(a, effective_bv) == effective_bv # <<>> /\ ~a.refresh_cache

\* variant: the video path is not checked
missing_video_unchecked(a) == FALSE

\* lines 83-84: not dry_run and not video_path
missing_video(a) == ~a.dry_run /\ a.video_path = <<>>

\* variant: the read-only flag is ignored
should_save_always(a, effective_bv) == effective_bv # <<>>

\* line 139: effective_bv and not cache_readonly
should_save(a, effective_bv) == effective_bv # <<>> /\ ~a.cache_readonly

\* lines 118-130
build_payload(strategy, effective_max, result, visual_notes, effective_bv) ==
    [strategy |-> [kind |-> strategy.kind,
                   sampling |-> strategy.sampling,
                   frames_per_min |-> strategy.frames_per_min,
                   max_frames |-> effective_max,
                   vlm_prompt_style |-> strategy.vlm_prompt_style,
                   language |-> strategy.language],
     summary |-> result,
     visual_notes |-> visual_notes,
     meta |-> [cache_hit |-> FALSE, pipeline_version |-> PIPELINE_VERSION,
               cache_bv |-> effective_bv]]

\* lines 82-142: the run after both cache checks missed
execute(c, a, f, effective_bv, subs_text, strategy, profile) ==
    LET effective_max == Min({a.max_frames, strategy.max_frames})
        c0 == << Call("classify", 0) >>
        sampled == ~a.dry_run
        frames == IF sampled
                  THEN sample_frames(VideoCapture(a.video_path),
                                     strategy.frames_per_min, effective_max)
                  ELSE <<>>
        c1 == IF sampled THEN Append(c0, Call("sample", effective_max)) ELSE c0
        c2 == Append(c1, Call("provider", 0))
        vcalls == vision_calls(frames, a.dry_run)
        visual_notes == parse_frames_with_vlm(a.provider, a.vlm_model, frames,
                                              strategy, a.dry_run)
        c3 == c2 \o vcalls
        c4 == Append(c3, Call("summarize", 0))
        result == summarize_video(a.provider, a.llm_model, subs_text,
                                  visual_notes, strategy.language)
        payload == build_payload(strategy, effective_max, result, visual_notes,
                                 effective_bv)
        sv == save_result(c, effective_bv, profile, payload)
    IN IF missing_video(a)
       THEN Res("ValueError", TRUE, NoneVal, c0, c, profile)
       ELSE IF sampled /\ f = "sample"
       THEN Res("sample", TRUE, NoneVal, c1, c, profile)
       ELSE IF f = "provider"
       THEN Res("provider", TRUE, NoneVal, c2, c, profile)
       ELSE IF f = "vlm" /\ vcalls # <<>>
       THEN Res("vlm", TRUE, NoneVal, Append(c2, vcalls[1]), c, profile)
       ELSE IF f = "summarize"
       THEN Res("summarize", TRUE, NoneVal, c4, c, profile)
       ELSE IF should_save(a, effective_bv)
       THEN IF sv.raise
            THEN Res("persist", TRUE, NoneVal, Append(c4, Call("save", 0)),
                     sv.cache, profile)
            ELSE Res("computed", FALSE, payload, Append(c4, Call("save", 0)),
                     sv.cache, profile)
       ELSE Res("computed", FALSE, payload, c4, c, profile)

\* lines 54-80: read the subtitles, classify, build the profile, precise check
after_coarse(c, a, f, effective_bv) ==
    LET subs_text == read_text(a.subs_path)
        strategy == decide_strategy(subs_text, a.language)
        profile == build_profile(a, strategy)
        precise == load_by_profile(c, effective_bv, profile)
        tagged == tag_cache_hit(precise.data, effective_bv)
    IN IF f = "subs" THEN Res("subs", TRUE, NoneVal, <<>>, c, NoneVal)
       ELSE IF cache_enabled(a, effective_bv) /\ usable(precise)
            THEN IF tagged.raise
                 THEN Res("AttributeError", TRUE, NoneVal,
                          << Call("classify", 0) >>, c, profile)
                 ELSE Res("hit_profile", FALSE, tagged.out,
                          << Call("classify", 0) >>, c, profile)
            ELSE execute(c, a, f, effective_bv, subs_text, strategy, profile)

\* variant: the coarse check does not look at the refresh flag
run_pipeline_coarse_on_refresh(c, a, f) ==
    LET effective_bv == resolve_bv(a)
        cached == load_latest(c, effective_bv)
        tagged == tag_cache_hit(cached.data, effective_bv)
    IN IF effective_bv # <<>> /\ usable(cached)
       THEN IF tagged.raise
            THEN Res("AttributeError", TRUE, NoneVal, <<>>, c, NoneVal)
            ELSE Res("hit_latest", FALSE, tagged.out, <<>>, c, NoneVal)
       ELSE after_coarse(c, a, f, effective_bv)

\* run_pipeline
run_pipeline(c, a, f) ==
    LET effective_bv == resolve_bv(a)
        cached == load_latest(c, effective_bv)
        tagged == tag_cache_hit(cached.data, effective_bv)
    IN IF cache_enabled(a, effective_bv) /\ usable(cached)
       THEN IF tagged.raise
            THEN Res("AttributeError", TRUE, NoneVal, <<>>, c, NoneVal)
            ELSE Res("hit_latest", FALSE, tagged.out, <<>>, c, NoneVal)
       ELSE after_coarse(c, a, f, effective_bv)

(***************************************************************************)
(* one_shot.py: run_one_shot.                                              *)
(***************************************************************************)
\* download_video: the newest video file of the job directory
download_video(url) == VideoV

\* download_subtitles: the newest subtitle file of the job directory
download_subtitles(url) == IF url = UrlO THEN SubsT ELSE SubsS

\* line 64: bv = extract_bv_id(url) or "anon"
one_shot_bv(url) ==
    IF extract_bv_id(url) # <<>> THEN extract_bv_id(url) ELSE Anon

\* lines 73-90: the arguments run_one_shot passes to run_pipeline
one_shot_args(o) ==
    [video_path |-> download_video(o.url),
     subs_path |-> download_subtitles(o.url),
     provider |-> o.provider,
     vlm_model |-> o.vlm_model,
     llm_model |-> o.llm_model,
     language |-> o.language,
     max_frames |-> o.max_frames,
     dry_run |-> FALSE,
     bv_id |-> one_shot_bv(o.url),
     source_url |-> o.url,
     cache_readonly |-> o.cache_readonly,
     refresh_cache |-> o.refresh_cache]

\* run_one_shot
run_one_shot(c, o, f) ==
    IF f = "download"
    THEN Res("download", TRUE, NoneVal, <<>>, c, NoneVal)
    ELSE run_pipeline(c, one_shot_args(o), f)

(***************************************************************************)
(* State: the cache directory tree, the last completed call, for each      *)
(* subject the save_result calls completed so far, and the calls and jobs  *)
(* that are under way.                                                     *)
(***************************************************************************)
\* no call under way
Idle == [kind |-> "idle"]

NoSaves == [last |-> NoneVal, under |-> {}]

\* what a completed save_result(bv_id, profile, payload) adds to the history
record_save(sv, bv_id, profile, payload) ==
    [sv EXCEPT ![bv_id] = [last |-> [profile |-> profile, data |-> payload],
                           under |-> sv[bv_id].under \cup {profile}]]

\* the save_result call at the end of a run_pipeline call completed
run_saved(r) ==
    /\ ~r.raised
    /\ \E i \in 1..Len(r.calls) : r.calls[i].step = "save"

SaveResultCall(bv_id, profile, payload) ==
    LET r == save_result(cache, bv_id, profile, payload)
    IN /\ cache' = r.cache
       /\ last' = [op |-> "save_result", bv |-> bv_id, profile |-> profile,
                   payload |-> payload, raised |-> r.raise]
       /\ saved' = IF r.raise THEN saved
                   ELSE record_save(saved, bv_id, profile, payload)
       /\ UNCHANGED procs

\* lines 59-72: the profile dict in the order its keys are inserted
profile_items(a, strategy) ==
    << [key |-> "pipeline_version", str |-> PIPELINE_VERSION],
       [key |-> "provider", str |-> a.provider],
       [key |-> "vlm_model", str |-> a.vlm_model],
       [key |-> "llm_model", str |-> a.llm_model],
       [key |-> "language", str |-> a.language],
       [key |-> "strategy", dict |->
           << [key |-> "kind", str |-> strategy.kind],
              [key |-> "sampling", str |-> strategy.sampling],
              [key |-> "vlm_prompt_style", str |-> strategy.vlm_prompt_style],
              [key |-> "frames_per_min", int |-> strategy.frames_per_min],
              [key |-> "max_frames", int |->
                  Min({a.max_frames, strategy.max_frames})] >>] >>

Swap(items, i) ==
    [n \in 1..Len(items) |->
        IF n = i THEN items[i + 1] ELSE IF n = i + 1 THEN items[i] ELSE items[n]]

\* the same dict built with two neighbouring insertions exchanged
swap_items(items, path, i) ==
    IF path = "top" THEN Swap(items, i)
    ELSE [n \in 1..Len(items) |->
             IF "dict" \in DOMAIN items[n]
             THEN [items[n] EXCEPT !.dict = Swap(items[n].dict, i)]
             ELSE items[n]]

\* _profile_hash(profile) for the profile run_pipeline builds
ProfileHashCall(a) ==
    LET items == profile_items(a, decide_strategy(read_text(a.subs_path),
                                                  a.language))
    IN /\ last' = [op |-> "profile_hash", items |-> items,
                   hash |-> items_hash(items)]
       /\ UNCHANGED <<cache, saved, procs>>

\* _profile_hash(profile) for an equal profile built in another key order
ReorderedHashCall(path, i) ==
    /\ last.op = "profile_hash"
    /\ LET items == swap_items(last.items, path, i)
       IN last' = [op |-> "profile_hash", items |-> items,
                   hash |-> items_hash(items)]
    /\ UNCHANGED <<cache, saved, procs>>

\* decide_strategy(text, preferred_lang)
DecideStrategyCall(text, preferred) ==
    /\ last' = [op |-> "decide_strategy", text |-> text, preferred |-> preferred,
                strategy |-> decide_strategy(text, preferred)]
    /\ UNCHANGED <<cache, saved, procs>>

\* save_result called when meta.json holds meta_file
SaveResultOver(bv_id, profile, payload, meta_file) ==
    LET r == save_result([cache EXCEPT ![bv_id].meta = meta_file],
                         bv_id, profile, payload)
    IN /\ cache' = r.cache
       /\ last' = [op |-> "save_result", bv |-> bv_id, profile |-> profile,
                   payload |-> payload, raised |-> r.raise,
                   before |-> meta_file]
       /\ saved' = IF r.raise THEN saved
                   ELSE record_save(saved, bv_id, profile, payload)
       /\ UNCHANGED procs

RunPipelineCall(a, f) ==
    LET r == run_pipeline(cache, a, f)
    IN /\ cache' = r.cache
       /\ last' = [op |-> "run_pipeline", args |-> a, fault |-> f,
                   bv |-> resolve_bv(a), how |-> r.how, raised |-> r.raised, out |-> r.out,
                   calls |-> r.calls, profile |-> r.profile]
       /\ saved' = IF run_saved(r)
                   THEN record_save(saved, resolve_bv(a), r.profile, r.out)
                   ELSE saved
       /\ UNCHANGED procs

RunOneShotCall(o, f) ==
    LET a == one_shot_args(o)
        r == run_one_shot(cache, o, f)
    IN /\ cache' = r.cache
       /\ last' = [op |-> "run_one_shot", url |-> o.url, args |-> a,
                   fault |-> f, bv |-> resolve_bv(a), how |-> r.how, raised |-> r.raised,
                   out |-> r.out, calls |-> r.calls, profile |-> r.profile]
       /\ saved' = IF run_saved(r)
                   THEN record_save(saved, resolve_bv(a), r.profile, r.out)
                   ELSE saved
       /\ UNCHANGED procs

(***************************************************************************)
(* The inputs of the calls.                                                *)
(***************************************************************************)
TutorialEn == decide_strategy(read_text(SubsS), "auto")

ProfileFor(vlm_model, llm_model) ==
    build_profile([provider |-> "mock", vlm_model |-> vlm_model,
                   llm_model |-> llm_model, language |-> "auto",
                   max_frames |-> 2], TutorialEn)

\* profiles handed to save_result directly
CacheProfiles ==
    {ProfileFor("vlm-a", "llm-a"), ProfileFor("vlm-b", "llm-a"),
     ProfileFor("vlm-c", "llm-a")}

\* profiles handed to save_result for a second subject
OtherProfiles == {ProfileFor("vlm-a", "llm-a"), ProfileFor("vlm-c", "llm-a")}

PayloadFor(llm_model) ==
    build_payload(TutorialEn, 2,
                  summarize_video("mock", llm_model, read_text(SubsS), <<>>, "en"),
                  <<>>, None)

\* payloads handed to save_result directly
CachePayloads == {PayloadFor("llm-a"), PayloadFor("llm-b")}

Args(src, v, m, d, ro, rf) ==
    [video_path |-> v, subs_path |-> src.subs_path, provider |-> "mock",
     vlm_model |-> m, llm_model |-> "llm-a", language |-> "auto",
     max_frames |-> 2, dry_run |-> d, bv_id |-> src.bv_id,
     source_url |-> src.source_url, cache_readonly |-> ro,
     refresh_cache |-> rf]

\* the subject id given explicitly
SrcExplicit == [bv_id |-> BV1, source_url |-> None, subs_path |-> SubsS]

\* the subject id found in the source URL
SrcUrl == [bv_id |-> None, source_url |-> UrlBV1, subs_path |-> SubsS]

\* the subject id found in the subtitle file name
SrcNamed == [bv_id |-> None, source_url |-> UrlX, subs_path |-> SubsNamed]

\* no subject id anywhere, two different sources
SrcNoIdS == [bv_id |-> None, source_url |-> None, subs_path |-> SubsS]

SrcNoIdT == [bv_id |-> None, source_url |-> UrlX, subs_path |-> SubsT]

PipelineArgs ==
    {Args(src, v, m, d, ro, rf) :
        src \in {SrcExplicit, SrcNoIdS}, v \in {None, VideoV},
        m \in {"vlm-a", "vlm-c"}, d \in BOOLEAN, ro \in BOOLEAN, rf \in BOOLEAN}

\* runs that reach the collaborators, where one of them fails
FailArgs ==
    {Args(src, VideoV, "vlm-a", d, FALSE, TRUE) :
        src \in {SrcExplicit, SrcNoIdS}, d \in BOOLEAN}

DirectArgs ==
    {Args(src, VideoV, "vlm-a", d, ro, rf) :
        src \in {SrcUrl, SrcNamed, SrcNoIdS, SrcNoIdT},
        d \in BOOLEAN, ro \in BOOLEAN, rf \in BOOLEAN}

\* runs over a cache directory that holds arbitrary files
AnyArgs ==
    {Args(SrcExplicit, v, "vlm-a", d, ro, rf) :
        v \in {None, VideoV}, d \in BOOLEAN, ro \in BOOLEAN, rf \in BOOLEAN}

OneShotArgs ==
    {[url |-> u, provider |-> "mock", vlm_model |-> "vlm-a",
      llm_model |-> "llm-a", language |-> "auto", max_frames |-> 2,
      cache_readonly |-> ro, refresh_cache |-> rf] :
        u \in {UrlBV1, UrlX, UrlO}, ro \in BOOLEAN, rf \in BOOLEAN}

(***************************************************************************)
(* Specifications.                                                         *)
(***************************************************************************)
Init ==
    /\ cache = [s \in Subjects |-> EmptyDir]
    /\ last = [op |-> "init"]
    /\ saved = [s \in Subjects |-> NoSaves]
    /\ procs = Idle

\* what result_latest.json or a result_<hash>.json may hold before the first
\* call: nothing, bytes that are not JSON, null, a list, an object without
\* "data", an object whose "data" is a list, one whose "data.meta" is a
\* string, one whose "data" has no "meta", and an entry save_result wrote
PriorEntryFiles ==
    LET p == ProfileFor("vlm-a", "llm-a")
        d == PayloadFor("llm-a")
    IN {Missing, Garbage, Json(NoneVal), Json([nondict |-> "list"]),
        Json([profile |-> p]),
        Json([profile |-> p, data |-> [nondict |-> "list"]]),
        Json([profile |-> p, data |-> [meta |-> [nondict |-> "str"]]]),
        Json([profile |-> p, data |-> [summary |-> d.summary]]),
        Json([profile |-> p, data |-> d])}

\* what meta.json may hold before the first call: nothing, bytes that are not
\* JSON, a list, {"profiles": null}, an object without "profiles", and
\* indexes save_result wrote
PriorMetaFiles ==
    {Missing, Garbage, Json([nondict |-> "list"]),
     Json([profiles |-> [nondict |-> "None"]]),
     Json([other |-> [list |-> <<>>]]),
     Json([profiles |-> [list |-> <<>>]]),
     Json([profiles |-> [list |-> << profile_hash(ProfileFor("vlm-a", "llm-a")) >>]])}

PriorDirs ==
    {[latest |-> l, meta |-> m, results |-> r] :
        l \in PriorEntryFiles, m \in PriorMetaFiles,
        r \in {<<>>} \cup
              {[k \in {profile_hash(ProfileFor("vlm-a", "llm-a"))} |-> f] :
                  f \in PriorEntryFiles \ {Missing}}}

\* the cache directory of one subject holds arbitrary files
InitAny ==
    /\ \E d \in PriorDirs :
          cache = [s \in Subjects |-> IF s = BV1 THEN d ELSE EmptyDir]
    /\ last = [op |-> "init"]
    /\ saved = [s \in Subjects |-> NoSaves]
    /\ procs = Idle

\* what meta.json may hold when a later save_result call starts, besides
\* what the previous call left: bytes that are not JSON, a list,
\* {"profiles": null}, an object without "profiles", a list that names a
\* hash twice
LaterMetaFiles ==
    LET h == profile_hash(ProfileFor("vlm-a", "llm-a"))
    IN {Garbage, Json([nondict |-> "list"]),
        Json([profiles |-> [nondict |-> "None"]]),
        Json([other |-> [list |-> <<>>]]),
        Json([profiles |-> [list |-> <<h, h>>]])}

IndexStep ==
    \E profile \in CacheProfiles, payload \in CachePayloads,
       m \in {cache[BV1].meta} \cup LaterMetaFiles :
          SaveResultOver(BV1, profile, payload, m)

\* tokens of subtitle texts: keywords of the groups in both scripts and
\* cases, a keyword inside a longer word, a word of no group, and runs of
\* 24, 25 and 26 CJK characters
Tokens ==
    {"anzhuang", "Slide", "presentation", "deliver", "talk", "vlog", "Movie",
     "hello", "hanzi24", "hanzi25", "hanzi26"}

PreferredLangs == {"auto", "zh", "en", "fr"}

\* decide_strategy on the empty text
ClassifyStep ==
    \E preferred \in PreferredLangs : DecideStrategyCall(<<>>, preferred)

\* decide_strategy on the last text with one more token
ClassifyLongerStep ==
    \E tok \in Tokens :
        /\ last.op = "decide_strategy"
        /\ Len(last.text) < MaxTokens
        /\ DecideStrategyCall(Append(last.text, tok), last.preferred)

HashArgs ==
    {Args(SrcExplicit, None, m, TRUE, FALSE, FALSE) : m \in {"vlm-a", "vlm-c"}}

HashStep ==
    \E a \in HashArgs : ProfileHashCall(a)

ReorderStep ==
    \/ \E i \in 1..5 : ReorderedHashCall("top", i)
    \/ \E i \in {1, 4} : ReorderedHashCall("strategy", i)

SaveStep ==
    \/ \E profile \in CacheProfiles, payload \in CachePayloads :
          SaveResultCall(BV1, profile, payload)
    \/ \E profile \in OtherProfiles :
          SaveResultCall(BV2, profile, PayloadFor("llm-a"))

RunStep ==
    \E a \in PipelineArgs : RunPipelineCall(a, "none")

FailStep ==
    \E a \in FailArgs, f \in Faults \ {"none"} : RunPipelineCall(a, f)

DirectStep ==
    \E a \in DirectArgs : RunPipelineCall(a, "none")

OneShotStep ==
    \E o \in OneShotArgs, f \in {"none", "download"} : RunOneShotCall(o, f)

AnyStep ==
    \E a \in AnyArgs, f \in {"none", "subs"} : RunPipelineCall(a, f)

NextCache == SaveStep

NextIndex == IndexStep

NextHash == HashStep \/ ReorderStep

NextStrategy == ClassifyStep \/ ClassifyLongerStep

NextAny == AnyStep

Next == RunStep \/ FailStep

NextOneShot == DirectStep \/ OneShotStep

\* the cache API alone, from an empty cache
SpecCache == Init /\ [][NextCache]_vars

\* the coordinator, from an empty cache
Spec == Init /\ [][Next]_vars

\* the one-shot wrapper next to direct calls of the coordinator
SpecOneShot == Init /\ [][NextOneShot]_vars

\* decide_strategy alone, over texts of up to MaxTokens tokens
SpecStrategy == Init /\ [][NextStrategy]_vars

\* _profile_hash alone, over profiles built in every key order
SpecHash == Init /\ [][NextHash]_vars

\* save_result alone, with meta.json changed between the calls
SpecIndex == Init /\ [][NextIndex]_vars

\* the cache API alone, over arbitrary prior files
SpecCacheAny == InitAny /\ [][NextCache]_vars

\* the coordinator over arbitrary prior files
SpecAny == InitAny /\ [][NextAny]_vars

(***************************************************************************)
(* Properties of the cache (cache.py).                                     *)
(***************************************************************************)
Entry(profile, payload) == [profile |-> profile, data |-> payload]

\* C1: once save_result(s, p, d) has completed, from any prior content of
\* the cache directory, load_by_profile(s, p) returns the entry with
\* profile p and data d, and load_latest(s) returns the same entry.
C1_RoundTrip ==
    (last.op = "save_result" /\ ~last.raised) =>
        /\ load_by_profile(cache, last.bv, last.profile)
              = Entry(last.profile, last.payload)
        /\ load_latest(cache, last.bv) = Entry(last.profile, last.payload)

\* a completed save of the second payload for a subject that was saved under
\* several profiles, whose index lists several hashes
C1_Witness ==
    /\ last.op = "save_result"
    /\ ~last.raised
    /\ last.bv = BV1
    /\ Cardinality(saved[BV1].under) >= 2
    /\ last.payload = PayloadFor("llm-b")
    /\ Len(cache[BV1].meta.val.profiles.list) >= 2

\* C2 as stated: a lookup under profile B never returns an entry saved
\* under another profile, and when the only save for X was made under A,
\* load_by_profile(X, B) is absent for every other B while load_latest(X)
\* returns the A entry.
C2_Precision ==
    \A X \in {BV1, BV2}, B \in CacheProfiles :
        LET r == load_by_profile(cache, X, B)
        IN /\ r # NoneVal => r.profile = B
           /\ \A A \in CacheProfiles :
                 (saved[X].under = {A} /\ A # B) =>
                     /\ r = NoneVal
                     /\ load_latest(cache, X).profile = A

\* C3: for every subject saved at least once, load_latest returns the
\* profile and payload of the last completed save for that subject, and a
\* save for another subject leaves it as it was.
C3_Latest ==
    [][ \A s \in Subjects :
          /\ saved'[s].last # NoneVal => load_latest(cache', s) = saved'[s].last
          /\ (last'.op = "save_result" /\ last'.bv # s) =>
                load_latest(cache', s) = load_latest(cache, s) ]_vars

\* both subjects were saved, one of them under several profiles, and the
\* last call saved the other one
C3_Witness ==
    /\ last.op = "save_result"
    /\ last.bv = BV2
    /\ Cardinality(saved[BV1].under) >= 2
    /\ load_latest(cache, BV1) = saved[BV1].last
    /\ saved[BV1].last.profile # saved[BV2].last.profile

(***************************************************************************)
(* Properties of the coordinator (api.py, one_shot.py).                    *)
(***************************************************************************)
CollaboratorSteps == {"sample", "provider", "vision", "summarize"}

NoCollaborator(calls) ==
    \A i \in 1..Len(calls) : calls[i].step \notin CollaboratorSteps

Steps(calls) == {calls[i].step : i \in 1..Len(calls)}

Hits == {"hit_latest", "hit_profile"}

\* C4: after a run_pipeline call with a resolved subject id that finished
\* successfully without cache_readonly, the next call with the same
\* arguments and no refresh returns the first call's payload with
\* meta.cache_hit = true, calls no collaborator and writes no cache file.
C4_RepeatIsHit ==
    [][ ( /\ last.op = "run_pipeline"
          /\ ~last.raised
          /\ last.bv # None
          /\ ~last.args.cache_readonly
          /\ last'.op = "run_pipeline"
          /\ last'.args = [last.args EXCEPT !.refresh_cache = FALSE] )
        => ( /\ ~last'.raised
             /\ last'.how \in Hits
             /\ last'.out = [last.out EXCEPT !.meta.cache_hit = TRUE]
             /\ NoCollaborator(last'.calls)
             /\ cache' = cache ) ]_vars

\* a call answered from the latest entry, which holds exactly what the same
\* arguments compute
C4_Witness ==
    /\ last.op = "run_pipeline"
    /\ last.how = "hit_latest"
    /\ ~last.args.cache_readonly
    /\ ~last.args.dry_run
    /\ last.calls = <<>>
    /\ saved[last.bv].last.data
         = run_pipeline([s \in Subjects |-> EmptyDir],
                        [last.args EXCEPT !.refresh_cache = TRUE], "none").out

\* C5 as stated: two executed runs on the same subject and subtitle file
\* that build equal profiles compute equal payloads.
C5_ProfileDeterminesPayload ==
    [][ ( /\ last.op = "run_pipeline"
          /\ last.how = "computed"
          /\ last'.op = "run_pipeline"
          /\ last'.how = "computed"
          /\ last'.bv = last.bv
          /\ last'.args.subs_path = last.args.subs_path
          /\ last'.profile = last.profile )
        => last'.out = last.out ]_vars

\* the cache without its entry files
Cleared(c) ==
    [s \in Subjects |-> [c[s] EXCEPT !.latest = Missing, !.results = <<>>]]

\* C6 as stated: whatever result_latest.json and result_<hash>.json hold,
\* run_pipeline returns a cache hit or ends as it does when these files are
\* missing.
C6_CorruptionIsMiss ==
    [][ last'.op = "run_pipeline" =>
          LET miss == run_pipeline(Cleared(cache), last'.args, last'.fault)
          IN \/ ~last'.raised /\ last'.how \in Hits
             \/ /\ last'.how = miss.how
                /\ last'.raised = miss.raised
                /\ last'.out = miss.out ]_vars

\* C7 as stated: a run_pipeline call that ends by raising leaves every
\* cache file as it was.
C7_FailedRunWritesNothing ==
    [][ (last'.op = "run_pipeline" /\ last'.raised) => cache' = cache ]_vars

\* C8 as stated: a call with dry_run false and no video path, whose subtitle
\* file is readable, ends with the precondition error whatever the cache
\* holds, before any collaborator.
C8_MissingVideoAlwaysFails ==
    (last.op = "run_pipeline" /\ last.fault = "none" /\ ~last.args.dry_run
        /\ last.args.video_path = None) =>
        (last.raised /\ last.how = "ValueError" /\ NoCollaborator(last.calls))

\* some cache lookup of the call finds a usable entry
Found(c, l) ==
    /\ l.bv # None
    /\ ~l.args.refresh_cache
    /\ \/ usable(load_latest(c, l.bv))
       \/ usable(load_by_profile(c, l.bv,
                    build_profile(l.args,
                        decide_strategy(read_text(l.args.subs_path),
                                        l.args.language))))

\* C8 as amended: a call with dry_run false and no video path calls no
\* collaborator and writes no cache file; it is answered from the cache
\* only when a lookup finds a usable entry (a payload tagged cache_hit, or
\* the error raised while tagging a malformed one), it may fail earlier on
\* the subtitle file, and otherwise it ends with the precondition error.
C8_MissingVideo ==
    [][ ( /\ last'.op = "run_pipeline"
          /\ ~last'.args.dry_run
          /\ last'.args.video_path = None )
        => ( /\ NoCollaborator(last'.calls)
             /\ cache' = cache
             /\ last'.how \in Hits \cup {"AttributeError", "subs", "ValueError"}
             /\ last'.how \in Hits =>
                   (~last'.raised /\ last'.out.meta.cache_hit /\ Found(cache, last'))
             /\ last'.how \notin Hits => last'.raised
             /\ last'.how = "AttributeError" => Found(cache, last')
             /\ (~Found(cache, last') /\ last'.fault # "subs") =>
                   last'.how = "ValueError" ) ]_vars

\* the precondition error was raised over a cache directory that holds files
C8_Witness ==
    /\ last.op = "run_pipeline"
    /\ ~last.args.dry_run
    /\ last.args.video_path = None
    /\ last.how = "ValueError"
    /\ ~last.args.refresh_cache
    /\ cache[BV1].latest # Missing
    /\ cache[BV1].results # <<>>

\* no subject id in the explicit id, the URL or the file names of the call
Unresolvable(l) ==
    IF l.op = "run_one_shot"
    THEN /\ extract_bv_id(l.url) = None
         /\ derive_bv_from_paths(download_subtitles(l.url),
                                  download_video(l.url)) = None
    ELSE /\ l.args.bv_id = None
         /\ extract_bv_id(l.args.source_url) = None
         /\ derive_bv_from_paths(l.args.subs_path, l.args.video_path) = None

\* C9 as stated: a run with no resolvable subject id, through run_pipeline
\* or run_one_shot, reads and writes no cache entry and still executes.
C9_NoIdNoCache ==
    [][ (last'.op \in {"run_pipeline", "run_one_shot"} /\ Unresolvable(last'))
        => ( /\ cache' = cache
             /\ last'.how \notin Hits
             /\ last'.fault = "none" =>
                   /\ last'.how = "computed"
                   /\ {"classify", "provider", "summarize"} \subseteq Steps(last'.calls) ) ]_vars

\* C10: a run_pipeline call with cache_readonly leaves every cache file
\* unchanged; a call without it that has a resolved subject id and executes
\* successfully ends with load_by_profile(subject, its profile) and
\* load_latest(subject) both holding the payload it returns.
C10_ReadonlyAndPersist ==
    [][ last'.op = "run_pipeline" =>
          /\ last'.args.cache_readonly => cache' = cache
          /\ ( /\ ~last'.args.cache_readonly
               /\ last'.bv # None
               /\ last'.how = "computed" )
             => ( /\ load_by_profile(cache', last'.bv, last'.profile)
                       = Entry(last'.profile, last'.out)
                  /\ load_latest(cache', last'.bv)
                       = Entry(last'.profile, last'.out) ) ]_vars

\* an executed run stored its payload over the entry of another profile
C10_Witness ==
    /\ last.op = "run_pipeline"
    /\ last.how = "computed"
    /\ ~last.args.cache_readonly
    /\ last.bv = BV1
    /\ Cardinality(saved[BV1].under) >= 2
    /\ load_latest(cache, BV1).data = last.out

\* the payload a call computes when nothing is read from or written to the
\* cache
Computed(l) ==
    run_pipeline([s \in Subjects |-> EmptyDir],
                 [l.args EXCEPT !.refresh_cache = TRUE, !.cache_readonly = TRUE],
                 l.fault).out

\* C11: a run_pipeline call with refresh_cache, whatever the cache holds,
\* never returns a payload tagged cache_hit and never fails on a cached
\* entry; it classifies, and with its inputs present and no collaborator
\* failing it calls the provider, vision and summarization collaborators
\* (and frame sampling outside a dry run); then, with a resolved subject id
\* and without cache_readonly, the profile-addressed entry and the latest
\* entry both hold the new payload.
C11_RefreshSkipsCache ==
    [][ (last'.op = "run_pipeline" /\ last'.args.refresh_cache) =>
          LET a == last'.args
              runs == last'.fault = "none" /\ (a.dry_run \/ a.video_path # None)
              new == Entry(build_profile(a,
                               decide_strategy(read_text(a.subs_path), a.language)),
                           Computed(last'))
          IN /\ last'.how \notin Hits \cup {"AttributeError"}
             /\ ~last'.raised => ~last'.out.meta.cache_hit
             /\ last'.fault # "subs" => "classify" \in Steps(last'.calls)
             /\ runs =>
                   /\ {"provider", "vision", "summarize"} \subseteq Steps(last'.calls)
                   /\ ~a.dry_run => "sample" \in Steps(last'.calls)
                   /\ last'.how \in {"computed", "persist"}
                   /\ last'.how = "computed" => last'.out = new.data
             /\ (runs /\ last'.bv # None /\ ~a.cache_readonly) =>
                   /\ load_by_profile(cache', last'.bv, new.profile) = new
                   /\ load_latest(cache', last'.bv) = new ]_vars

\* a refreshing run over a directory that held files before the first call
\* replaced both entries with what it computed from the video
C11_Witness ==
    /\ last.op = "run_pipeline"
    /\ last.args.refresh_cache
    /\ ~last.args.cache_readonly
    /\ ~last.args.dry_run
    /\ last.how = "computed"
    /\ cache[BV1].meta.kind = "json"
    /\ "other" \in DOMAIN cache[BV1].meta.val
    /\ load_latest(cache, BV1).data = last.out
    /\ load_by_profile(cache, BV1, last.profile).data = last.out

(***************************************************************************)
(* Properties of the index (cache.py, meta.json).                          *)
(***************************************************************************)
\* the profiles list of a meta.json file; a missing or unparseable file and
\* an object without "profiles" count as the empty list
IndexOf(file) ==
    IF file.kind = "json" /\ IsDict(file.val) /\ "profiles" \in DOMAIN file.val
          /\ "list" \in DOMAIN file.val.profiles
    THEN file.val.profiles.list
    ELSE <<>>

Occurrences(list, h) == Cardinality({i \in 1..Len(list) : list[i] = h})

\* every profile saved for the subject has its hash exactly once in the list
IndexedOnce(c, sv, bv_id) ==
    \A p \in sv[bv_id].under :
        Occurrences(IndexOf(c[bv_id].meta), profile_hash(p)) = 1

\* saving the same profile and payload again changes nothing
SavedTwiceIsOnce(c, l) ==
    save_result(c, l.bv, l.profile, l.payload) = [raise |-> FALSE, cache |-> c]

\* C12 as stated: after every completed save_result call, whatever
\* meta.json held before the call, the profiles list holds the hash of
\* every profile ever saved for the subject exactly once, and saving the
\* same profile and payload again leaves the store as it is.
C12_IndexHoldsAllOnce ==
    [][ (last'.op = "save_result" /\ ~last'.raised) =>
          /\ IndexedOnce(cache', saved', last'.bv)
          /\ SavedTwiceIsOnce(cache', last') ]_vars

(***************************************************************************)
(* Properties of the profile hash (cache.py).                              *)
(***************************************************************************)
\* C13: two profiles with the same keys and values at every nesting level
\* get the same hash whatever order their keys were inserted in, and that
\* hash is the one save_result and load_by_profile compute for the profile.
C13_HashOfContent ==
    [][ last'.op = "profile_hash" =>
          /\ last'.hash = profile_hash(dict_of(last'.items))
          /\ (last.op = "profile_hash"
                /\ dict_of(last'.items) = dict_of(last.items)) =>
                last'.hash = last.hash ]_vars

\* the hash of a profile whose keys are in descending order at the top
\* level and whose strategy was built in another order than sorted
C13_Witness ==
    /\ last.op = "profile_hash"
    /\ \A i \in 1..5 :
          KeyRank(last.items[i].key) > KeyRank(last.items[i + 1].key)
    /\ last.items[2].dict[1].key = "sampling"
    /\ last.items[2].dict[4].key = "max_frames"
    /\ last.hash = profile_hash(ProfileFor("vlm-c", "llm-a"))

(***************************************************************************)
(* Properties of the classifier (strategy.py).                             *)
(***************************************************************************)
Kinds == {"tutorial", "slides", "game", "talk", "vlog", "movie", "unknown"}

\* C14: for every text, the empty one included, and every preferred
\* language, values other than auto, zh and en included, decide_strategy
\* returns a Strategy whose kind is one of the seven kinds, whose
\* frames_per_min and max_frames are positive and whose language is zh or en.
C14_Total ==
    last.op = "decide_strategy" =>
        /\ DOMAIN last.strategy = {"kind", "sampling", "frames_per_min",
                                   "max_frames", "vlm_prompt_style", "language"}
        /\ last.strategy.kind \in Kinds
        /\ last.strategy.frames_per_min > 0
        /\ last.strategy.max_frames > 0
        /\ last.strategy.language \in {"zh", "en"}

\* a text of CJK characters only, classified under a preference that is no
\* language the classifier knows
C14_Witness ==
    /\ last.op = "decide_strategy"
    /\ last.preferred = "fr"
    /\ last.text = <<"hanzi25", "hanzi26">>
    /\ last.strategy.kind = "unknown"
    /\ last.strategy.language = "zh"

\* the keyword groups in the order they are tried, with their table rows
KeywordGroups ==
    << [kind |-> "tutorial", frames_per_min |-> 12, max_frames |-> 80,
        vlm_prompt_style |-> "slide_extractor",
        words |-> {"jiaocheng", "buzhou", "anzhuang", "dianji", "peizhi",
                   "chapter", "lesson", "slide", "ppt", "mulu"}],
       [kind |-> "slides", frames_per_min |-> 10, max_frames |-> 70,
        vlm_prompt_style |-> "slide_extractor",
        words |-> {"ppt", "huandengpian", "slide", "presentation"}],
       [kind |-> "game", frames_per_min |-> 20, max_frames |-> 120,
        vlm_prompt_style |-> "ui_extractor",
        words |-> {"youxi", "jisha", "paiwei", "live", "match", "gameplay"}],
       [kind |-> "talk", frames_per_min |-> 6, max_frames |-> 60,
        vlm_prompt_style |-> "scene_descriptor",
        words |-> {"yanjiang", "fangtan", "boke", "talk", "podcast", "interview"}],
       [kind |-> "vlog", frames_per_min |-> 8, max_frames |-> 80,
        vlm_prompt_style |-> "scene_descriptor",
        words |-> {"vlog", "lvxing", "richang", "jilu"}],
       [kind |-> "movie", frames_per_min |-> 15, max_frames |-> 100,
        vlm_prompt_style |-> "scene_descriptor",
        words |-> {"dianying", "juqing", "pianduan", "movie", "scene"}],
       [kind |-> "unknown", frames_per_min |-> 10, max_frames |-> 80,
        vlm_prompt_style |-> "generic", words |-> {}] >>

\* the groups that have a keyword in the lower-cased text
Matching(text) ==
    {g \in 1..6 : \E i \in 1..Len(text) :
                     KeywordsIn(Lower(text[i])) \cap KeywordGroups[g].words # {}}

\* C15: the kind is that of the earliest group with a keyword in the
\* lower-cased text, frames_per_min, max_frames and prompt style are the
\* table row of that kind, and a text of no group is unknown with 10 frames
\* per minute, 80 frames at most and the generic prompt.
C15_FirstGroupWins ==
    last.op = "decide_strategy" =>
        LET row == KeywordGroups[IF Matching(last.text) = {} THEN 7
                                 ELSE Min(Matching(last.text))]
        IN /\ last.strategy.kind = row.kind
           /\ last.strategy.frames_per_min = row.frames_per_min
           /\ last.strategy.max_frames = row.max_frames
           /\ last.strategy.vlm_prompt_style = row.vlm_prompt_style
           /\ last.strategy.sampling = "uniform"

\* a text with a capitalised movie keyword before a tutorial keyword is
\* tutorial
C15_Witness ==
    /\ last.op = "decide_strategy"
    /\ last.text = <<"Movie", "deliver", "Slide">>
    /\ Matching(last.text) = {1, 2, 3, 6}
    /\ last.strategy.kind = "tutorial"
    /\ last.strategy.max_frames = 80

\* C16: with preference auto the language is zh exactly when the text has
\* more than 50 CJK characters; with preference zh or en it is that
\* preference whatever the text; the keyword group plays no part.
C16_Language ==
    last.op = "decide_strategy" =>
        /\ last.preferred = "auto" =>
              (last.strategy.language = "zh" <=> CjkCount(last.text) >= 51)
        /\ last.preferred = "auto" =>
              (last.strategy.language = "en" <=> CjkCount(last.text) <= 50)
        /\ last.preferred \in {"zh", "en"} =>
              last.strategy.language = last.preferred

\* a text of exactly 50 CJK characters that matches a keyword group
\* resolves to en
C16_Witness ==
    /\ last.op = "decide_strategy"
    /\ last.preferred = "auto"
    /\ CjkCount(last.text) = 50
    /\ last.strategy.kind = "tutorial"
    /\ last.strategy.language = "en"

(***************************************************************************)
(* Subtitle post-processing (enhanced_bilisub.py): Python floats.          *)
(*                                                                         *)
(* A segment's start and end are floats read from decimal literals.  A     *)
(* time is kept as the literal, in hundredths of a second, and becomes a   *)
(* float where the code computes with it.  A float is m * 2^e with         *)
(* 2^(MantissaBits-1) <= |m| < 2^MantissaBits, or zero; every operation    *)
(* returns the float nearest to the exact result, ties to the even         *)
(* mantissa, as IEEE 754 binary64 does with 53 bits.                       *)
(***************************************************************************)
Abs(x) == IF x < 0 THEN 0 - x ELSE x

Float(m, e) == [m |-> m, e |-> e]

Zero == Float(0, 0)

\* scale n / d by powers of two until the quotient has MantissaBits bits
RECURSIVE normalize(_, _, _)
normalize(n, d, e) ==
    IF n < Pow(2, MantissaBits - 1) * d THEN normalize(2 * n, d, e - 1)
    ELSE IF n >= Pow(2, MantissaBits) * d THEN normalize(n, 2 * d, e + 1)
    ELSE [n |-> n, d |-> d, e |-> e]

\* the float nearest to the rational n / d (d > 0), ties to even
fl(n, d) ==
    IF n = 0 THEN Zero
    ELSE LET s == normalize(Abs(n), d, 0)
             q == s.n \div s.d
             r == s.n % s.d
             up == 2 * r > s.d \/ (2 * r = s.d /\ q % 2 = 1)
             m == IF up THEN q + 1 ELSE q
             sign == IF n < 0 THEN 0 - 1 ELSE 1
         IN IF m = Pow(2, MantissaBits)
            THEN Float(sign * Pow(2, MantissaBits - 1), s.e + 1)
            ELSE Float(sign * m, s.e)

\* x * 2^k, which is exact
shift(x, k) == IF x.m = 0 THEN Zero ELSE Float(x.m, x.e + k)

\* a - b as an exact multiple n * 2^e
Diff(a, b) ==
    LET k == IF a.e < b.e THEN a.e ELSE b.e
    IN [n |-> a.m * Pow(2, a.e - k) - b.m * Pow(2, b.e - k), e |-> k]

\* a - b
fsub(a, b) == LET x == Diff(a, b) IN shift(fl(x.n, 1), x.e)

\* a / b, b # 0
fdiv(a, b) ==
    LET sign == IF b.m < 0 THEN 0 - 1 ELSE 1
    IN shift(fl(sign * a.m, Abs(b.m)), a.e - b.e)

\* a < b
flt(a, b) == Diff(a, b).n < 0

\* a > b
fgt(a, b) == Diff(a, b).n > 0

\* min(a, b) and max(a, b): the first argument unless the second is
\* strictly smaller or larger
fmin(a, b) == IF flt(b, a) THEN b ELSE a

fmax(a, b) == IF fgt(b, a) THEN b ELSE a

\* the float of a time given in hundredths of a second
secs(c) == fl(c, 100)

(***************************************************************************)
(* Subtitle post-processing (enhanced_bilisub.py): clean_subtitle.         *)
(*                                                                         *)
(* A segment's content is a sequence of tokens: "a" is a letter, "w20" a   *)
(* word of twenty letters, " " a space, "\n" a line break, "#" the topic   *)
(* mark, "-" the em dash, "guanzhu" and "huoqu" the words that open and    *)
(* close the promotion line, of two and eight characters.                  *)
(***************************************************************************)
SubtitleSegment(start, end, content, lang) ==
    [start |-> start, end |-> end, content |-> content, lang |-> lang]

\* contents shorter than this many characters are merged
ShortLen == 20

\* \s
Whitespace == {" ", "\n"}

\* len() of a content
RECURSIVE len(_)
len(content) ==
    IF content = <<>> THEN 0
    ELSE (CASE Head(content) = "w20" -> 20
            [] Head(content) = "guanzhu" -> 2
            [] Head(content) = "huoqu" -> 8
            [] OTHER -> 1) + len(Tail(content))

\* the number of leading tokens of s that are in set
RECURSIVE Run(_, _)
Run(s, set) ==
    IF s = <<>> \/ Head(s) \notin set THEN 0 ELSE 1 + Run(Tail(s), set)

Drop(s, n) == SubSeq(s, n + 1, Len(s))

\* where the shortest match of  open .*? close  that starts at the head of
\* s ends, 0 when there is none; the dot matches no line break
span_end(s, open, close) ==
    LET ends == {j \in 2..Len(s) :
                    /\ s[j] = close
                    /\ \A k \in 2..(j - 1) : s[k] # "\n"}
    IN IF s # <<>> /\ Head(s) = open /\ ends # {} THEN Min(ends) ELSE 0

\* re.sub(open + ".*?" + close, "", s)
RECURSIVE sub_span(_, _, _)
sub_span(s, open, close) ==
    IF s = <<>> THEN <<>>
    ELSE IF span_end(s, open, close) # 0
         THEN sub_span(Drop(s, span_end(s, open, close)), open, close)
         ELSE <<Head(s)>> \o sub_span(Tail(s), open, close)

\* where the match of  \s*-{2,}\s*  that starts at the head of s ends,
\* 0 when there is none
dashes_end(s) ==
    LET w == Run(s, Whitespace)
        d == Run(Drop(s, w), {"-"})
    IN IF d >= 2 THEN w + d + Run(Drop(s, w + d), Whitespace) ELSE 0

\* re.sub(r"\s*-{2,}\s*", "", s)
RECURSIVE sub_dashes(_)
sub_dashes(s) ==
    IF s = <<>> THEN <<>>
    ELSE IF dashes_end(s) # 0 THEN sub_dashes(Drop(s, dashes_end(s)))
         ELSE <<Head(s)>> \o sub_dashes(Tail(s))

\* re.sub(r"\s+", " ", s)
RECURSIVE sub_spaces(_)
sub_spaces(s) ==
    IF s = <<>> THEN <<>>
    ELSE IF Head(s) \in Whitespace
         THEN <<" ">> \o sub_spaces(Drop(s, Run(s, Whitespace)))
         ELSE <<Head(s)>> \o sub_spaces(Tail(s))

Reverse(s) == [i \in 1..Len(s) |-> s[Len(s) + 1 - i]]

\* s.strip()
strip(s) ==
    LET t == Drop(s, Run(s, Whitespace))
    IN SubSeq(t, 1, Len(t) - Run(Reverse(t), Whitespace))

\* the four substitutions and the strip applied to one content
clean_content(content) ==
    strip(sub_spaces(sub_dashes(
        sub_span(sub_span(content, "guanzhu", "huoqu"), "#", "#"))))

kept_any(content) == TRUE

\* "if not content: continue" keeps a segment when this holds
kept(content) == content # <<>>

\* the first loop: clean every content, skip the empty ones
cleaned(segments) ==
    SelectSeq([i \in 1..Len(segments) |->
                  [segments[i] EXCEPT !.content = clean_content(@)]],
              LAMBDA segment : kept(segment.content))

\* the test that merges curr into prev
mergeable(prev, curr) ==
    LET time_diff == fsub(secs(curr.start), secs(prev.end))
    IN /\ flt(time_diff, fl(1, 2))
       /\ len(prev.content) < ShortLen
       /\ len(curr.content) < ShortLen

\* prev after curr was merged into it
absorb(prev, curr) ==
    [prev EXCEPT !.content = prev.content \o <<" ">> \o curr.content,
                 !.end = curr.end]

\* the second loop, with merged as built so far
RECURSIVE merge_short(_, _)
merge_short(merged, rest) ==
    IF rest = <<>> THEN merged
    ELSE LET prev == merged[Len(merged)]
             curr == Head(rest)
         IN IF mergeable(prev, curr)
            THEN merge_short([merged EXCEPT ![Len(merged)] = absorb(prev, curr)],
                             Tail(rest))
            ELSE merge_short(Append(merged, curr), Tail(rest))

clean_subtitle(segments) ==
    LET c == cleaned(segments)
    IN IF Len(c) > 1 THEN merge_short(<<c[1]>>, Tail(c)) ELSE c

\* clean_subtitle(segments); again tells that segments is what the call
\* before returned
CleanSubtitleCall(segments, again) ==
    /\ last' = [op |-> "clean_subtitle", segments |-> segments,
                out |-> clean_subtitle(segments), again |-> again]
    /\ UNCHANGED <<cache, saved, procs>>

\* contents of the segments of a track: a letter, a long word, a topic, a
\* topic that opens and one that closes, a topic over two lines, and a
\* promotion line next to a dash separator with spaces around
Contents ==
    {<<"a">>, <<"w20">>, <<"#", "a", "#">>, <<"#", "a">>, <<"a", "#">>,
     <<"#", "a", "\n", "a", "#">>,
     <<"guanzhu", "a", "huoqu", " ", "a", " ", "-", "-", "\n", "a", " ">>}

\* from the end of a segment to the start of the next: close and far
Gaps == {20, 100}

\* clean_subtitle on the empty track
CleanStep == \E segments \in {<<>>} : CleanSubtitleCall(segments, FALSE)

\* clean_subtitle on the last track with one more segment, which lasts one
\* second; the first starts at 2.00
CleanLongerStep ==
    \E content \in Contents, gap \in Gaps :
        /\ last.op = "clean_subtitle"
        /\ ~last.again
        /\ Len(last.segments) < MaxSegments
        /\ LET segments == last.segments
               start == IF segments = <<>> THEN 200
                        ELSE segments[Len(segments)].end + gap
           IN CleanSubtitleCall(Append(segments,
                  SubtitleSegment(start, start + 100, content, "zh")),
                  FALSE)

\* clean_subtitle on what the last call returned
CleanAgainStep ==
    /\ last.op = "clean_subtitle"
    /\ ~last.again
    /\ CleanSubtitleCall(last.out, TRUE)

NextClean == CleanStep \/ CleanLongerStep \/ CleanAgainStep

\* clean_subtitle alone
SpecClean == Init /\ [][NextClean]_vars

(***************************************************************************)
(* Subtitle post-processing (enhanced_bilisub.py): process_bilingual.      *)
(***************************************************************************)
\* [s for s in segments if s.lang == lang]
tagged(segments, lang) == SelectSeq(segments, LAMBDA s : s.lang = lang)

key_lt_start(a, b) == flt(secs(a.start), secs(b.start))

\* (a.start, a.end) < (b.start, b.end)
key_lt(a, b) ==
    \/ flt(secs(a.start), secs(b.start))
    \/ /\ ~flt(secs(b.start), secs(a.start))
       /\ flt(secs(a.end), secs(b.end))

\* x put into the sorted sequence behind every segment that is not after it
insert(sorted, x) ==
    LET n == Cardinality({i \in 1..Len(sorted) : ~key_lt(x, sorted[i])})
    IN SubSeq(sorted, 1, n) \o <<x>> \o Drop(sorted, n)

\* list.sort(key=lambda x: (x.start, x.end)), which is stable
RECURSIVE sort_by_time(_)
sort_by_time(segments) ==
    IF segments = <<>> THEN <<>>
    ELSE insert(sort_by_time(SubSeq(segments, 1, Len(segments) - 1)),
                segments[Len(segments)])

\* the test of the inner loop
overlapping(zh, en) ==
    LET overlap_start == fmax(secs(zh.start), secs(en.start))
        overlap_end == fmin(secs(zh.end), secs(en.end))
        overlap == fmax(Zero, fsub(overlap_end, overlap_start))
        zh_duration == fsub(secs(zh.end), secs(zh.start))
    IN IF fgt(zh_duration, Zero)
       THEN fgt(fdiv(overlap, zh_duration), fl(3, 4))
       ELSE FALSE

\* the inner loop: the index of the first en segment that passes the test,
\* 0 when none does
matching_en(zh, en_segments) ==
    LET found == {i \in 1..Len(en_segments) : overlapping(zh, en_segments[i])}
    IN IF found = {} THEN 0 ELSE Min(found)

\* zh as it is appended to merged
with_en(zh, en_segments) ==
    IF matching_en(zh, en_segments) # 0
    THEN [zh EXCEPT !.content =
             zh.content \o <<"\n">> \o en_segments[matching_en(zh, en_segments)].content]
    ELSE zh

process_bilingual(segments) ==
    LET zh_segments == sort_by_time(tagged(segments, "zh"))
        en_segments == sort_by_time(tagged(segments, "en"))
    IN IF zh_segments = <<>> \/ en_segments = <<>> THEN segments
       ELSE [i \in 1..Len(zh_segments) |-> with_en(zh_segments[i], en_segments)]

\* process_bilingual(segments)
ProcessBilingualCall(segments) ==
    /\ last' = [op |-> "process_bilingual", segments |-> segments,
                out |-> process_bilingual(segments)]
    /\ UNCHANGED <<cache, saved, procs>>

\* the segments of a track, times in hundredths of a second: zh segments of
\* four seconds, of no and of negative length and two short ones; en
\* segments that cover three quarters of a zh segment or a little more,
\* an early one that covers four fifths and a later one that covers nine
\* tenths of the long zh segment; a segment in a third language
TrackSegments ==
    {SubtitleSegment(0, 400, <<"a">>, "zh"),
     SubtitleSegment(100, 100, <<"a">>, "zh"),
     SubtitleSegment(400, 100, <<"a">>, "zh"),
     SubtitleSegment(0, 40, <<"a">>, "zh"),
     SubtitleSegment(25, 45, <<"a">>, "zh"),
     SubtitleSegment(100, 400, <<"w20">>, "en"),
     SubtitleSegment(99, 400, <<"w20">>, "en"),
     SubtitleSegment(10, 40, <<"w20">>, "en"),
     SubtitleSegment(30, 45, <<"w20">>, "en"),
     SubtitleSegment(0, 320, <<"a">>, "en"),
     SubtitleSegment(40, 400, <<"a", " ", "a">>, "en"),
     SubtitleSegment(0, 400, <<"a", " ", "a">>, "ja")}

\* process_bilingual on the empty track
BilingualStep == \E segments \in {<<>>} : ProcessBilingualCall(segments)

\* process_bilingual on the last track with one more segment
BilingualLongerStep ==
    \E segment \in TrackSegments :
        /\ last.op = "process_bilingual"
        /\ Len(last.segments) < MaxSegments
        /\ ProcessBilingualCall(Append(last.segments, segment))

NextBilingual == BilingualStep \/ BilingualLongerStep

\* process_bilingual alone
SpecBilingual == Init /\ [][NextBilingual]_vars

(***************************************************************************)
(* Properties of the subtitle post-processing (enhanced_bilisub.py).       *)
(***************************************************************************)
StartsOrdered(segments) ==
    \A i \in 1..(Len(segments) - 1) : segments[i].start <= segments[i + 1].start

\* C17: for every input sequence of segments ordered by start time, the
\* output of clean_subtitle is ordered by start time, has at most as many
\* segments as the input, and has no segment with empty text; every output
\* segment's start is the start of some input segment.
C17_CleanShape ==
    (last.op = "clean_subtitle" /\ StartsOrdered(last.segments)) =>
        /\ StartsOrdered(last.out)
        /\ Len(last.out) <= Len(last.segments)
        /\ \A i \in 1..Len(last.out) :
              /\ last.out[i].content # <<>>
              /\ \E j \in 1..Len(last.segments) :
                    last.out[i].start = last.segments[j].start

\* three ordered segments: the first is only a topic and is dropped, the
\* other two are short and close and become one
C17_Witness ==
    /\ last.op = "clean_subtitle"
    /\ ~last.again
    /\ Len(last.segments) = 3
    /\ StartsOrdered(last.segments)
    /\ last.segments[1].content = <<"#", "a", "#">>
    /\ Len(last.out) = 1
    /\ last.out[1].start = last.segments[2].start
    /\ last.out[1].end = last.segments[3].end
    /\ last.out[1].content = <<"a", " ", "a">>

\* C18: cleaning is idempotent: for every sequence of segments, applying
\* clean_subtitle to the output of clean_subtitle gives the same sequence
\* again, with the same number of segments and the same start, end and text
\* for each, including for inputs where adjacent short segments are merged.
C18_Idempotent ==
    (last.op = "clean_subtitle" /\ last.again) =>
        /\ Len(last.out) = Len(last.segments)
        /\ \A i \in 1..Len(last.out) :
              /\ last.out[i].start = last.segments[i].start
              /\ last.out[i].end = last.segments[i].end
              /\ last.out[i].content = last.segments[i].content

\* the overlap of two segments, computed on the times as given
ExactOverlap(zh, en) ==
    Max({0, Min({zh.end, en.end}) - Max({zh.start, en.start})})

\* zh lasts, and more than three quarters of it are covered by en
Qualifies(zh, en) ==
    /\ zh.end - zh.start > 0
    /\ 4 * ExactOverlap(zh, en) > 3 * (zh.end - zh.start)

\* the text of an en segment was added to the segment
Merged(segment) ==
    \E i \in 1..Len(segment.content) : segment.content[i] = "\n"

\* C19: in process_bilingual a zh segment matches an en segment exactly
\* when the zh duration is positive and overlap / zh duration is strictly
\* greater than 0.75, where overlap = max(0, min(ends) - max(starts)):
\* exactly 75% overlap does not merge, slightly more merges, and a zh
\* segment with start = end (or end < start) matches nothing.
C19_Threshold ==
    (/\ last.op = "process_bilingual"
     /\ tagged(last.segments, "zh") # <<>>
     /\ tagged(last.segments, "en") # <<>>) =>
        \A i \in 1..Len(last.out) :
            Merged(last.out[i]) <=>
                \E j \in 1..Len(last.segments) :
                    /\ last.segments[j].lang = "en"
                    /\ Qualifies(last.out[i], last.segments[j])

Has(segments, lang) == \E i \in 1..Len(segments) : segments[i].lang = lang

\* how many segments of a track have this tag and these times
Count(segments, lang, start, end) ==
    Cardinality({i \in 1..Len(segments) :
                    /\ segments[i].lang = lang
                    /\ segments[i].start = start
                    /\ segments[i].end = end})

TimeOrdered(segments) ==
    \A i \in 1..(Len(segments) - 1) :
        \/ segments[i].start < segments[i + 1].start
        \/ /\ segments[i].start = segments[i + 1].start
           /\ segments[i].end <= segments[i + 1].end

\* C20: output shape of process_bilingual: when the input has no zh-tagged
\* segment or no en-tagged segment, the result is the input sequence, same
\* segments in the same order with unchanged text and times; otherwise the
\* result has exactly one segment per zh-tagged input segment, ordered by
\* (start, end), each with its start and end unchanged, and contains no
\* en-tagged segment.
C20_Shape ==
    last.op = "process_bilingual" =>
        IF ~Has(last.segments, "zh") \/ ~Has(last.segments, "en")
        THEN last.out = last.segments
        ELSE /\ Len(last.out) = Cardinality({i \in 1..Len(last.segments) :
                                                last.segments[i].lang = "zh"})
             /\ TimeOrdered(last.out)
             /\ ~Has(last.out, "en")
             /\ \A i \in 1..Len(last.out) : last.out[i].lang = "zh"
             /\ \A i \in 1..Len(last.segments) :
                   LET s == last.segments[i]
                   IN s.lang = "zh" =>
                         Count(last.out, "zh", s.start, s.end)
                             = Count(last.segments, "zh", s.start, s.end)

\* two zh segments that start together, the longer first, and an en
\* segment: the result has the two zh segments, the shorter first
C20_Witness ==
    /\ last.op = "process_bilingual"
    /\ Len(last.segments) = 3
    /\ last.segments[1].lang = "zh"
    /\ last.segments[2].lang = "zh"
    /\ last.segments[3].lang = "en"
    /\ last.segments[1].start = last.segments[2].start
    /\ last.segments[1].end > last.segments[2].end
    /\ Len(last.out) = 2
    /\ last.out[1].end = last.segments[2].end
    /\ last.out[2].end = last.segments[1].end

(***************************************************************************)
(* sample_frames alone (frames.py).                                        *)
(***************************************************************************)
\* sample_frames(video_path, frames_per_min, max_frames)
SampleFramesCall(video, frames_per_min, max_frames) ==
    /\ last' = [op |-> "sample_frames", video |-> video,
                frames_per_min |-> frames_per_min, max_frames |-> max_frames,
                frames |-> sample_frames(video, frames_per_min, max_frames)]
    /\ UNCHANGED <<cache, saved, procs>>

\* videos: no frame, one frame, a few, many; the frame rate unknown (0),
\* low and usual
Videos ==
    {[total_frames |-> n, fps |-> f] : n \in {0, 1, 7, 120}, f \in {0, 2, 25}}

SampleStep ==
    \E video \in Videos, frames_per_min \in {0, 1, 6, 60},
       max_frames \in 0..MaxAsked :
          SampleFramesCall(video, frames_per_min, max_frames)

NextFrames == SampleStep

SpecFrames == Init /\ [][NextFrames]_vars

\* C21: for every video length, frame rate, frames_per_min and max_frames,
\* sample_frames terminates and returns at most max_frames images, in
\* increasing frame position.
C21_AtMostMaxFrames ==
    last.op = "sample_frames" =>
        /\ Len(last.frames) <= last.max_frames
        /\ \A i \in 1..(Len(last.frames) - 1) : last.frames[i] < last.frames[i + 1]

(***************************************************************************)
(* Properties of the coordinator, continued (api.py).                      *)
(***************************************************************************)
\* the profile a request resolves to
Requested(a) ==
    build_profile(a, decide_strategy(read_text(a.subs_path), a.language))

\* C22: whenever run_pipeline returns a payload tagged cache_hit = true,
\* that payload was stored by a run whose profile equals the profile the
\* current request resolves to; a request whose profile differs from every
\* stored one is executed, not answered from the cache.
C22_HitHasRequestedProfile ==
    [][ ( /\ last'.op = "run_pipeline"
          /\ ~last'.raised
          /\ last'.out.meta.cache_hit )
        => LET p == Requested(last'.args)
               served == IF last'.how = "hit_latest"
                         THEN load_latest(cache, last'.bv)
                         ELSE load_by_profile(cache, last'.bv, p)
           IN /\ p \in saved[last'.bv].under
              /\ served.profile = p
              /\ last'.out = [served.data EXCEPT !.meta.cache_hit = TRUE] ]_vars

\* runs that miss the cache: with and without a video that has frames, with
\* fewer and more frames asked for than the strategy allows
OrderArgs ==
    {[Args(SrcExplicit, v, "vlm-a", d, ro, TRUE) EXCEPT !.max_frames = n] :
        v \in {VideoV, VideoE}, d \in BOOLEAN, ro \in BOOLEAN,
        n \in {1, 200}}

OrderStep == \E a \in OrderArgs : RunPipelineCall(a, "none")

NextOrder == OrderStep

\* run_pipeline with refresh_cache over several frame limits and videos
SpecOrder == Init /\ [][NextOrder]_vars

\* where a step stands in the order of a run
Rank(step) ==
    CASE step = "classify" -> 1
      [] step = "sample" -> 2
      [] step = "provider" -> 3
      [] step = "vision" -> 4
      [] step = "summarize" -> 5
      [] step = "save" -> 6

Only(calls, step) == SelectSeq(calls, LAMBDA c : c.step = step)

\* C23: in a run_pipeline call that misses the cache, the steps happen in
\* this order: classification, then (only outside dry-run) one frame-sampling
\* request with max frames = min(requested max_frames, strategy.max_frames),
\* then one vision request per sampled frame in frame order (exactly one
\* prompt-only request in dry-run, none when no frame was sampled), then
\* exactly one summarization request, then the cache write; the returned
\* visual_notes has one entry per vision request and strategy.max_frames in
\* the payload is that minimum.
C23_StepOrder ==
    (last.op = "run_pipeline" /\ last.how = "computed" /\ ~last.raised) =>
        LET a == last.args
            strategy == decide_strategy(read_text(a.subs_path), a.language)
            least == IF a.max_frames < strategy.max_frames
                     THEN a.max_frames ELSE strategy.max_frames
            frames == sample_frames(VideoCapture(a.video_path),
                                    strategy.frames_per_min, least)
            calls == last.calls
            vision == Only(calls, "vision")
        IN /\ \A i \in 1..(Len(calls) - 1) :
                 Rank(calls[i].step) <= Rank(calls[i + 1].step)
           /\ Len(Only(calls, "classify")) = 1
           /\ Only(calls, "sample")
                = IF a.dry_run THEN <<>> ELSE << Call("sample", least) >>
           /\ IF a.dry_run THEN vision = << Call("vision", -1) >>
              ELSE /\ Len(vision) = Len(frames)
                   /\ \A i \in 1..Len(vision) : vision[i].arg = frames[i]
           /\ Len(Only(calls, "summarize")) = 1
           /\ Len(Only(calls, "save")) <= 1
           /\ Len(last.out.visual_notes) = Len(vision)
           /\ last.out.strategy.max_frames = least

\* a run on a video, not dry, that asks for more frames than the strategy
\* allows, samples twelve frames and writes the cache
C23_Witness ==
    /\ last.op = "run_pipeline"
    /\ last.how = "computed"
    /\ ~last.args.dry_run
    /\ last.args.max_frames = 200
    /\ last.out.strategy.max_frames = 80
    /\ Len(last.out.visual_notes) = 12
    /\ Len(last.calls) = 17
    /\ last.calls[2] = Call("sample", 80)
    /\ last.calls[4] = Call("vision", 0)
    /\ last.calls[5] = Call("vision", 10)
    /\ last.calls[16].step = "summarize"
    /\ last.calls[17].step = "save"

(***************************************************************************)
(* Two save_result calls at once (cache.py).  Each call is its four file   *)
(* operations in program order; the operations of the two calls interleave *)
(* in any order.                                                           *)
(***************************************************************************)
\* a save_result call under way: the operation it is about to do, its
\* arguments, and the content of meta.json it has read
Writer(profile, payload) ==
    [pc |-> "result", profile |-> profile, payload |-> payload, seen |-> Missing]

Finished(w) == w.pc \in {"done", "raised"}

\* the next file operation of the call w on the directory d: line 32, line
\* 35, lines 40-44, lines 45-47
save_result_step(d, w) ==
    LET h == profile_hash(w.profile)
        entry == Json([profile |-> w.profile, data |-> w.payload])
        m == meta_update(w.seen, h)
    IN CASE w.pc = "result" ->
              [dir |-> [d EXCEPT !.results =
                           [k \in DOMAIN d.results \cup {h} |->
                               IF k = h THEN entry ELSE d.results[k]]],
               w |-> [w EXCEPT !.pc = "latest"]]
         [] w.pc = "latest" ->
              [dir |-> [d EXCEPT !.latest = entry],
               w |-> [w EXCEPT !.pc = "meta_read"]]
         [] w.pc = "meta_read" ->
              [dir |-> d, w |-> [w EXCEPT !.pc = "meta_write", !.seen = d.meta]]
         [] w.pc = "meta_write" ->
              IF m.raise THEN [dir |-> d, w |-> [w EXCEPT !.pc = "raised"]]
              ELSE [dir |-> [d EXCEPT !.meta = m.file],
                    w |-> [w EXCEPT !.pc = "done"]]

\* two threads call save_result for the same subject
SavesStart(bv_id, p1, d1, p2, d2) ==
    /\ procs = Idle
    /\ procs' = [kind |-> "saves", bv |-> bv_id,
                 w |-> << Writer(p1, d1), Writer(p2, d2) >>]
    /\ UNCHANGED <<cache, last, saved>>

\* the call i does its next file operation
SavesStep(i) ==
    /\ procs.kind = "saves"
    /\ ~Finished(procs.w[i])
    /\ LET dir == cache_dir_for_bv(procs.bv)
           r == save_result_step(cache[dir], procs.w[i])
       IN /\ cache' = [cache EXCEPT ![dir] = r.dir]
          /\ procs' = [procs EXCEPT !.w[i] = r.w]
          /\ saved' = IF r.w.pc = "done"
                      THEN record_save(saved, procs.bv, r.w.profile, r.w.payload)
                      ELSE saved
          /\ UNCHANGED last

\* both calls have returned
SavesJoin ==
    /\ procs.kind = "saves"
    /\ Finished(procs.w[1])
    /\ Finished(procs.w[2])
    /\ last' = [op |-> "save_result_twice", bv |-> procs.bv,
                first |-> [profile |-> procs.w[1].profile,
                           data |-> procs.w[1].payload],
                second |-> [profile |-> procs.w[2].profile,
                            data |-> procs.w[2].payload],
                raised |-> procs.w[1].pc = "raised" \/ procs.w[2].pc = "raised"]
    /\ procs' = Idle
    /\ UNCHANGED <<cache, saved>>

WritersStart ==
    \E p1 \in OtherProfiles, p2 \in OtherProfiles, d1 \in CachePayloads,
       d2 \in CachePayloads :
          /\ p1 # p2
          /\ SavesStart(BV1, p1, d1, p2, d2)

NextWriters == WritersStart \/ (\E i \in {1, 2} : SavesStep(i)) \/ SavesJoin

SpecWriters == Init /\ [][NextWriters]_vars

\* C24: when two save_result calls for the same subject under two different
\* profiles run concurrently, with their file reads and writes interleaved
\* in any order, then after both have completed both result_<hash>.json
\* files hold their own payload, meta.json lists both hashes, and
\* result_latest.json holds the complete entry of one of the two saves.
C24_BothSavesKept ==
    (last.op = "save_result_twice" /\ procs = Idle /\ ~last.raised) =>
        LET d == cache[cache_dir_for_bv(last.bv)]
            h1 == profile_hash(last.first.profile)
            h2 == profile_hash(last.second.profile)
        IN /\ load_by_profile(cache, last.bv, last.first.profile) = last.first
           /\ load_by_profile(cache, last.bv, last.second.profile) = last.second
           /\ d.latest \in {Json(last.first), Json(last.second)}
           /\ d.meta.kind = "json"
           /\ \E i \in 1..Len(d.meta.val.profiles.list) :
                 d.meta.val.profiles.list[i] = h1
           /\ \E i \in 1..Len(d.meta.val.profiles.list) :
                 d.meta.val.profiles.list[i] = h2

(***************************************************************************)
(* process_bilingual and the segment objects it is given                   *)
(* (enhanced_bilisub.py).  merged holds the objects of the input list, and *)
(* line 592 assigns to the content field of such an object.                *)
(***************************************************************************)
\* the objects of the list segments, in list order, after
\* process_bilingual(segments) has returned
segments_after(segments) ==
    LET en_segments == sort_by_time(tagged(segments, "en"))
    IN IF tagged(segments, "zh") = <<>> \/ en_segments = <<>> THEN segments
       ELSE [i \in 1..Len(segments) |->
                IF segments[i].lang = "zh" THEN with_en(segments[i], en_segments)
                ELSE segments[i]]

\* process_bilingual(segments), the list's objects holding the values
\* segments before the call; first is the result of the earlier call on the
\* same list, if there was one
ProcessBilingualObjects(segments, again, first) ==
    /\ last' = [op |-> "process_bilingual_objects", segments |-> segments,
                after |-> segments_after(segments),
                out |-> process_bilingual(segments),
                again |-> again, first |-> first]
    /\ UNCHANGED <<cache, saved, procs>>

\* the calls that can come next: on the empty track; on the objects of the
\* last track with one more segment; a second time on the same list of
\* objects
ObjectsCalls ==
    {[segments |-> <<>>, again |-> FALSE, first |-> <<>>]}
    \cup (IF last.op = "process_bilingual_objects" /\ ~last.again
          THEN {[segments |-> last.after, again |-> TRUE, first |-> last.out]}
               \cup {[segments |-> Append(last.segments, segment),
                      again |-> FALSE, first |-> <<>>] :
                        segment \in IF Len(last.segments) < MaxSegments
                                    THEN TrackSegments ELSE {}}
          ELSE {})

ObjectsStep ==
    \E call \in ObjectsCalls :
        ProcessBilingualObjects(call.segments, call.again, call.first)

NextObjects == ObjectsStep

SpecObjects == Init /\ [][NextObjects]_vars

\* C25: process_bilingual does not change the text, start or end of any
\* segment object it is given: after the call every input segment has the
\* values it had before, so aligning the same input list a second time gives
\* the same result as the first time.
C25_InputsUntouched ==
    last.op = "process_bilingual_objects" =>
        /\ last.after = last.segments
        /\ last.again => last.out = last.first

(***************************************************************************)
(* The subtitles of a video (enhanced_bilisub.py, process_video_task):     *)
(* every downloaded track is parsed and tagged with the track's language,  *)
(* the tracks are concatenated, then process_bilingual and clean_subtitle  *)
(* run over the whole list.                                                *)
(***************************************************************************)
\* one entry of a track's "body"
Item(from, to, content) == [from |-> from, to |-> to, content |-> content]

\* parse_subtitle_content(content): content is a JSON text with a body, or
\* a text json.loads rejects
parse_subtitle_content(content) ==
    IF content.kind # "json" THEN <<>>
    ELSE LET body == content.val.body
             texts == SelectSeq(body, LAMBDA item : strip(item.content) # <<>>)
         IN [i \in 1..Len(texts) |->
                SubtitleSegment(texts[i].from, texts[i].to,
                                strip(texts[i].content), "zh")]

\* the segments of one track, lines 706-711
track_segments(sub) ==
    LET sub_segments == parse_subtitle_content(sub.content)
    IN [i \in 1..Len(sub_segments) |-> [sub_segments[i] EXCEPT !.lang = sub.lan]]

\* segments after the loop over the tracks, lines 690-714
RECURSIVE downloaded(_)
downloaded(subtitles) ==
    IF subtitles = <<>> THEN <<>>
    ELSE track_segments(Head(subtitles)) \o downloaded(Tail(subtitles))

\* task.subs after lines 716-719
task_subs(segments) ==
    IF segments # <<>> THEN clean_subtitle(process_bilingual(segments)) ELSE <<>>

\* process_video_task on a video with the subtitle tracks subtitles, as far
\* as the subtitles go
ProcessVideoTask(subtitles) ==
    /\ last' = [op |-> "process_video_task", subtitles |-> subtitles,
                segments |-> downloaded(subtitles),
                subs |-> task_subs(downloaded(subtitles))]
    /\ UNCHANGED <<cache, saved, procs>>

\* body entries, times in hundredths of a second: a first and a late line,
\* a line that ends when it starts, a line of blanks
Items ==
    {Item(0, 100, <<"a">>), Item(1000, 1200, <<"a">>), Item(200, 200, <<"a">>),
     Item(0, 100, <<" ">>)}

\* the number of body entries of the tracks, an unreadable track counting
\* as one
RECURSIVE entries(_)
entries(subtitles) ==
    IF subtitles = <<>> THEN 0
    ELSE (IF Head(subtitles).content.kind = "json"
          THEN Len(Head(subtitles).content.val.body) ELSE 1)
         + entries(Tail(subtitles))

\* the track lists that can come next: no track; the last list with one
\* more track, readable or not; the last list with one more entry in its
\* last track
SubtitleLists ==
    {<<>>}
    \cup (IF last.op = "process_video_task" /\ entries(last.subtitles) < MaxSegments
          THEN LET subtitles == last.subtitles
                   n == Len(subtitles)
               IN {Append(subtitles, [lan |-> lan, content |-> Json([body |-> <<item>>])]) :
                      lan \in {"zh", "en"}, item \in Items}
                  \cup {Append(subtitles, [lan |-> "zh", content |-> Garbage])}
                  \cup (IF n > 0 /\ subtitles[n].content.kind = "json"
                        THEN {[subtitles EXCEPT ![n].content.val.body = Append(@, item)] :
                                 item \in Items}
                        ELSE {})
          ELSE {})

SubtitlesStep == \E subtitles \in SubtitleLists : ProcessVideoTask(subtitles)

NextSubtitles == SubtitlesStep

SpecSubtitles == Init /\ [][NextSubtitles]_vars

\* no merge of the second loop of clean_subtitle, run on cleaned segments
\* with merged as built so far, moves the end of a segment earlier
RECURSIVE EndsNeverEarlier(_, _)
EndsNeverEarlier(merged, rest) ==
    IF rest = <<>> THEN TRUE
    ELSE LET prev == merged[Len(merged)]
             curr == Head(rest)
         IN IF mergeable(prev, curr)
            THEN /\ ~flt(secs(curr.end), secs(prev.end))
                 /\ EndsNeverEarlier([merged EXCEPT ![Len(merged)] = absorb(prev, curr)],
                                     Tail(rest))
            ELSE EndsNeverEarlier(Append(merged, curr), Tail(rest))

\* C26: every segment retained in a video's final subtitle list
\* (parse_subtitle_content, then process_bilingual, then clean_subtitle, as
\* process_video_task runs them over the concatenated subtitle tracks) has
\* end > start; in particular a merge in clean_subtitle never produces a
\* segment whose end is at or before its start, and never moves a segment's
\* end earlier.
C26_EndAfterStart ==
    last.op = "process_video_task" =>
        /\ \A i \in 1..Len(last.subs) :
              fgt(secs(last.subs[i].end), secs(last.subs[i].start))
        /\ LET c == cleaned(process_bilingual(last.segments))
           IN Len(c) > 1 => EndsNeverEarlier(<<c[1]>>, Tail(c))

(***************************************************************************)
(* Properties of the subtitle pairing, continued (enhanced_bilisub.py)     *)
(***************************************************************************)
\* a comes before b in (start, end) order
Before(a, b) == a.start < b.start \/ (a.start = b.start /\ a.end < b.end)

\* C27: first-match pairing: for every zh segment that has at least one
\* qualifying en segment, process_bilingual sets its text to the zh text, a
\* line break, then the text of the qualifying en segment that comes first
\* in (start, end) order, even when a later en segment overlaps more; a zh
\* segment with no qualifying en segment keeps its text unchanged, and one
\* en segment may be paired with several zh segments.
C27_FirstMatch ==
    (last.op = "process_bilingual" /\ Has(last.segments, "zh")
                                   /\ Has(last.segments, "en")) =>
        LET zhs == sort_by_time(tagged(last.segments, "zh"))
            ens == tagged(last.segments, "en")
        IN \A i \in 1..Len(zhs) :
              LET Q == {j \in 1..Len(ens) : Qualifies(zhs[i], ens[j])}
              IN IF Q = {} THEN last.out[i].content = zhs[i].content
                 ELSE \E j \in Q :
                         /\ \A k \in Q : ~Before(ens[k], ens[j])
                         /\ last.out[i].content
                               = zhs[i].content \o <<"\n">> \o ens[j].content

\* zh_content and en_content as _generate_json takes them from the text of
\* a segment, lines 1011-1017
bilingual_parts(content) ==
    LET breaks == {i \in 1..Len(content) : content[i] = "\n"}
    IN IF breaks # {}
       THEN [zh |-> strip(SubSeq(content, 1, Min(breaks) - 1)),
             en |-> strip(SubSeq(content, Min(breaks) + 1, Len(content)))]
       ELSE [zh |-> content, en |-> <<>>]

\* C28: a segment that process_bilingual paired with an en segment still
\* holds, after clean_subtitle (the order process_video_task applies them),
\* its zh text and its en text separated by a line break, so that the ASS
\* and JSON writers and the bilingual statistics, which split on the line
\* break, recover both languages.
C28_PairKeepsLineBreak ==
    last.op = "process_video_task" =>
        LET paired == process_bilingual(last.segments)
        IN \A i \in 1..Len(paired) :
              Merged(paired[i]) =>
                  \E k \in 1..Len(last.subs) :
                      /\ Merged(last.subs[k])
                      /\ bilingual_parts(last.subs[k].content).zh # <<>>
                      /\ bilingual_parts(last.subs[k].content).en # <<>>

(***************************************************************************)
(* The service (server.py): one semaphore created when the module is       *)
(* loaded, and the handlers of GET /health and POST /one_shot.             *)
(***************************************************************************)
MAX_CONCURRENCY == 3

\* asyncio.Semaphore(value)
Semaphore(value) == [value |-> value]

\* _sem.acquire_nowait(): asyncio.Semaphore has acquire, release and locked
\* and no acquire_nowait, so the attribute lookup raises AttributeError and
\* leaves the semaphore as it is
acquire_nowait(sem) == [raise |-> TRUE, sem |-> sem]

\* the process after server.py was loaded: the semaphore and the jobs that
\* are running
Server == [kind |-> "server", sem |-> Semaphore(MAX_CONCURRENCY), jobs |-> <<>>]

\* the request body passes the checks of OneShotRequest
valid_request(req) == req.max_frames >= 1 /\ req.max_frames <= 200

\* the answer to a POST /one_shot as the claims see it: the status, the
\* jobs that were running when it arrived, and the slots before and after
Answer(req, status, admitted, before, after) ==
    [op |-> "one_shot", req |-> req, status |-> status, admitted |-> admitted,
     running |-> Len(procs.jobs), before |-> before.value, after |-> after.value]

\* POST /one_shot up to the hand-over of the job to a thread (lines 41-49)
\* or to the error answer.  No request gets past line 43, so no job is
\* started and lines 47-66 are not run.
OneShotPost(req) ==
    /\ procs.kind = "server"
    /\ LET a == acquire_nowait(procs.sem)
       IN IF ~valid_request(req)
          THEN /\ last' = Answer(req, 422, FALSE, procs.sem, procs.sem)
               /\ UNCHANGED procs
          ELSE IF a.raise
          THEN /\ last' = Answer(req, 429, FALSE, procs.sem, a.sem)
               /\ procs' = [procs EXCEPT !.sem = a.sem]
          ELSE /\ last' = Answer(req, 0, TRUE, procs.sem, a.sem)
               /\ procs' = [procs EXCEPT !.sem = a.sem, !.jobs = Append(@, req)]
    /\ UNCHANGED <<cache, saved>>

\* GET /health
HealthGet ==
    /\ procs.kind = "server"
    /\ last' = [op |-> "health", ok |-> TRUE, max_concurrency |-> MAX_CONCURRENCY,
                available_slots |-> procs.sem.value]
    /\ UNCHANGED <<cache, saved, procs>>

\* request bodies: max_frames below, in and above the accepted range
ServerRequests ==
    {[url |-> u, provider |-> p, vlm_model |-> "vlm-a", llm_model |-> "llm-a",
      language |-> "auto", max_frames |-> n, cache_readonly |-> ro,
      refresh_cache |-> rf] :
        u \in {UrlBV1, UrlX, UrlO}, p \in {"mock", "openrouter"},
        n \in {0, 1, 40, 200, 201}, ro \in BOOLEAN, rf \in BOOLEAN}

InitServer ==
    /\ cache = [s \in Subjects |-> EmptyDir]
    /\ last = [op |-> "init"]
    /\ saved = [s \in Subjects |-> NoSaves]
    /\ procs = Server

PostStep == \E req \in ServerRequests : OneShotPost(req)

NextServer == PostStep \/ HealthGet

\* the service, from the load of server.py
SpecServer == InitServer /\ [][NextServer]_vars

\* C29: admission control of POST /one_shot: at every moment the number of
\* running jobs is at most MAX_CONCURRENCY; a request that arrives while
\* fewer than MAX_CONCURRENCY jobs are running is admitted and run; a
\* request that arrives while MAX_CONCURRENCY jobs are running is rejected
\* with 429 and does not change the slot count; every admitted job returns
\* exactly one slot when it finishes or fails, so with no job running the
\* available slots equal MAX_CONCURRENCY.
C29_Admission ==
    procs.kind = "server" =>
        /\ Len(procs.jobs) <= MAX_CONCURRENCY
        /\ procs.jobs = <<>> => procs.sem.value = MAX_CONCURRENCY
        /\ (last.op = "one_shot" /\ valid_request(last.req)) =>
              IF last.running < MAX_CONCURRENCY
              THEN last.admitted /\ last.status # 429
              ELSE /\ ~last.admitted
                   /\ last.status = 429
                   /\ last.after = last.before

(***************************************************************************)
(* The retries of the model calls (vlm.py, summarize.py): every request    *)
(* goes through _chat_with_retry, decorated with                           *)
(* retry(stop=stop_after_attempt(3), wait=wait_exponential(min=1, max=8)). *)
(* The provider fails a request some number of times before it answers.    *)
(***************************************************************************)
stop_after_attempt == 3

\* how often a provider fails one request before it answers, at most
MaxFailing == 3

chat_with_retry_unbounded(failing) == [attempts |-> failing + 1, raise |-> FALSE]

\* _chat_with_retry on a request the provider fails `failing` times: the
\* attempts made, and whether the error of the last one is raised
chat_with_retry(failing) ==
    [attempts |-> Min({failing + 1, stop_after_attempt}),
     raise |-> failing >= stop_after_attempt]

\* fails[k] is how often the provider fails the k-th request; requests
\* beyond the end of fails are answered at once
failing_of(fails, k) == IF k <= Len(fails) THEN fails[k] ELSE 0

\* the attempts of the requests reqs from the k-th on, in order, and the
\* request that gave up (0: none)
RECURSIVE attempts_from(_, _, _)
attempts_from(reqs, fails, k) ==
    IF k > Len(reqs) THEN [tries |-> <<>>, failed |-> 0]
    ELSE LET t == chat_with_retry(failing_of(fails, k))
             tries == [j \in 1..t.attempts |->
                          [request |-> k, call |-> reqs[k],
                           ok |-> j = t.attempts /\ ~t.raise]]
             rest == attempts_from(reqs, fails, k + 1)
         IN IF t.raise THEN [tries |-> tries, failed |-> k]
            ELSE [tries |-> tries \o rest.tries, failed |-> rest.failed]

model_call(call) == call.step \in {"vision", "summarize"}

\* the run r, which is the run with every request answered, cut at the
\* request that gave up when the provider fails as fails tells
retrying(r, c, a, fails) ==
    LET reqs == SelectSeq(r.calls, model_call)
        t == attempts_from(reqs, fails, 1)
        at == {i \in 1..Len(r.calls) : model_call(r.calls[i])}
        cut == CHOOSE i \in at : Cardinality({j \in at : j <= i}) = t.failed
    IN [res |-> IF t.failed = 0 THEN r
                ELSE Res(reqs[t.failed].step, TRUE, NoneVal,
                         SubSeq(r.calls, 1, cut), c, r.profile),
        requests |-> Len(reqs),
        frames |-> IF a.dry_run THEN 0 ELSE Len(Only(r.calls, "vision")),
        tries |-> t.tries]

\* run_pipeline with a provider that fails as fails tells
run_pipeline_retrying(c, a, fails) ==
    retrying(run_pipeline(c, a, "none"), c, a, fails)

\* the state after the run x
after_run(a, fails, x) ==
    /\ cache' = x.res.cache
    /\ last' = [op |-> "run_pipeline_retrying", args |-> a, fails |-> fails,
                raised |-> x.res.raised, out |-> x.res.out, calls |-> x.res.calls,
                requests |-> x.requests, frames |-> x.frames,
                tries |-> x.tries, wrote |-> x.res.cache # cache]
    /\ saved' = IF run_saved(x.res)
                THEN record_save(saved, resolve_bv(a), x.res.profile, x.res.out)
                ELSE saved
    /\ UNCHANGED procs

RunPipelineRetrying(a, fails) ==
    after_run(a, fails, run_pipeline_retrying(cache, a, fails))

\* runs that write the cache and do not read it, dry or not, on a video
\* with frames or with none, with one or two frames asked for
RetryArgs ==
    {[Args(SrcExplicit, v, "vlm-a", d, FALSE, TRUE) EXCEPT !.max_frames = n] :
        v \in {VideoV, VideoE}, d \in BOOLEAN, n \in {1, 2}}

\* the runs that can come next: a first run with a provider that answers
\* at once; the run before again, with a provider that fails one more
\* request
RetryRuns ==
    (IF last.op = "init"
     THEN {[args |-> a, fails |-> <<>>] : a \in RetryArgs} ELSE {})
    \cup (IF last.op = "run_pipeline_retrying" /\ Len(last.fails) < last.requests
          THEN {[args |-> last.args, fails |-> Append(last.fails, n)] :
                   n \in 0..MaxFailing}
          ELSE {})

RetryStep == \E run \in RetryRuns : RunPipelineRetrying(run.args, run.fails)

NextRetry == RetryStep

\* run_pipeline with providers that fail
SpecRetry == Init /\ [][NextRetry]_vars

\* the attempts of the k-th request of the last run
TriesOf(k) == {i \in 1..Len(last.tries) : last.tries[i].request = k}

\* each request is attempted at most 3 times; a success lets the run go
\* on; after 3 failed attempts the error leaves the run with no further
\* collaborator call and no cache write
RetriesAsStated ==
    /\ \A k \in 1..last.requests : Cardinality(TriesOf(k)) <= 3
    /\ \A i \in 1..Len(last.tries) :
          last.tries[i].ok =>
              IF last.tries[i].request < last.requests
              THEN /\ i < Len(last.tries)
                   /\ last.tries[i + 1].request = last.tries[i].request + 1
              ELSE ~last.raised /\ i = Len(last.tries)
    /\ \A k \in 1..last.requests :
          (Cardinality(TriesOf(k)) = 3 /\ \A i \in TriesOf(k) : ~last.tries[i].ok) =>
              /\ last.raised
              /\ TriesOf(k + 1) = {}
              /\ last.calls[Len(last.calls)] = last.tries[Len(last.tries)].call
              /\ ~last.wrote

\* C30 as stated: each vision request and the summarization request is
\* attempted at most 3 times: a success on any attempt lets the run
\* continue, and after 3 failed attempts the error leaves run_pipeline with
\* no further collaborator call and no cache write; so a run with n sampled
\* frames always ends after at most 3 * (n + 1) model-call attempts.
C30_AttemptsPerFrame ==
    last.op = "run_pipeline_retrying" =>
        /\ RetriesAsStated
        /\ Len(last.tries) <= 3 * (last.frames + 1)

\* C30, amended: as above, with the bound 3 * (v + 1) where v is the number
\* of vision requests of the run: the number of sampled frames, and 1 in a
\* dry run, which samples no frame and sends one prompt-only request.
C30_BoundedAttempts ==
    last.op = "run_pipeline_retrying" =>
        /\ RetriesAsStated
        /\ Len(last.tries)
              <= 3 * ((IF last.args.dry_run THEN 1 ELSE last.frames) + 1)

\* a run on two frames whose second vision request is answered at the third
\* attempt and whose summarization request is given up: seven attempts, no
\* cache write
C30_Witness ==
    /\ last.op = "run_pipeline_retrying"
    /\ last.frames = 2
    /\ last.fails = <<0, 2, 3>>
    /\ Len(last.tries) = 7
    /\ last.tries[4].ok
    /\ last.raised
    /\ ~last.wrote

====
